---------------------------- MODULE Spec2Model ----------------------------
(***************************************************************************)
(* A model of the bookmarking backend: the generic document store          *)
(* (server/framework/doc.ts), the Sessioning, Authenticating, Tagging and  *)
(* Graphing concepts and the routes that synchronise them.                 *)
(*                                                                         *)
(* Documents are records; a collection is the sequence of its documents in *)
(* insertion order.  ObjectIds are natural numbers and their string form   *)
(* is the sequence of their hexadecimal digits.  A string that the code     *)
(* splits is a sequence of one-character strings.                          *)
(* A thrown error is modelled by the name of its class as the result of    *)
(* the call.                                                               *)
(***************************************************************************)
EXTENDS Integers, Sequences, FiniteSets, Bags, TLC

VARIABLES
    sessions,        \* session object -> its fields (the key "user" is absent when undefined)
    sessLog,         \* session object -> the Sessioning calls made on it, in order
    users,           \* AuthenticatingConcept.users
    webapps,         \* WebappingConcept.webapps
    tagDocs,         \* TaggingConcept.tags
    graphDocs,       \* GraphingConcept.tags
    nextId,          \* the next ObjectId the database assigns
    now,             \* the clock read by new Date()
    authLog,         \* the last Authenticating calls, oldest first
    procs,           \* request -> the state of a call or route in flight
    collectionNames, \* DocCollection.collectionNames
    constructed,     \* the names of the DocCollections constructed so far
    ctorLast,        \* the outcome of the last DocCollection constructor call
    graphLast,       \* the last Graphing call
    floating,        \* the TaggingConcept.delete calls started without await
    tagLog,          \* the last Tagging calls, oldest first
    nPosts,          \* the number of posts Posting.create was asked to store
    errorHandlers,   \* Router.errorHandlers, in the order the types were registered
    lastRequest      \* the last request the dispatcher handled, with its response

sessVars == <<sessions, sessLog>>
storeVars == <<users, webapps, tagDocs, graphDocs, nextId, now>>
authVars == <<authLog, procs>>
ctorVars == <<collectionNames, constructed, ctorLast>>
tagVars == <<floating, tagLog>>
routeVars == <<nPosts, errorHandlers, lastRequest>>
vars == <<sessVars, storeVars, authVars, ctorVars, graphLast, tagVars, routeVars>>

-----------------------------------------------------------------------------
(* Bounds of the model. *)

\* Sessioning calls made on one session object.
MaxSessCalls == 3

\* ObjectIds the database assigns in the Authenticating specification.
MaxUserIds == 2

\* DocCollections constructed.
MaxStores == 4

\* TaggingConcept.delete calls started without await and not yet finished.
MaxFloating == 2

\* Posts are counted up to this many.
MaxPosts == 1

\* The largest limit given to topTagsForItems.
MaxLimit == 3

\* Documents in the DocCollection written on its own.
MaxDocs == 2

\* The clock of that DocCollection stops here.
MaxTime == 2

-----------------------------------------------------------------------------
(* Values. *)

Null == [isNull |-> TRUE]

HexDigits == <<"0", "1", "2", "3", "4", "5", "6", "7", "8", "9", "a", "b", "c", "d", "e", "f">>

RECURSIVE toHexString(_)
\* ObjectId.toString(): the hexadecimal digits of the id.
toHexString(id) ==
    IF id < 16 THEN <<HexDigits[id + 1]>>
    ELSE toHexString(id \div 16) \o <<HexDigits[(id % 16) + 1]>>

RECURSIVE ObjectId(_)
\* new ObjectId(hex): the id whose hexadecimal digits are hex.
ObjectId(hex) ==
    IF Len(hex) = 0 THEN 0
    ELSE 16 * ObjectId(SubSeq(hex, 1, Len(hex) - 1))
         + (CHOOSE d \in 0..15 : HexDigits[d + 1] = hex[Len(hex)])

-----------------------------------------------------------------------------
(* server/framework/doc.ts: DocCollection over a collection of documents. *)

InternalFields == {"_id", "dateCreated", "dateUpdated"}

\* filter {f1: v1, ...}: every field of the filter is a field of the document with that value.
Matches(doc, filter) ==
    \A f \in DOMAIN filter : f \in DOMAIN doc /\ doc[f] = filter[f]

\* The position of the first document the filter matches, 0 when there is none.
FirstMatch(coll, filter) ==
    IF \E i \in 1..Len(coll) : Matches(coll[i], filter)
    THEN CHOOSE i \in 1..Len(coll) :
            /\ Matches(coll[i], filter)
            /\ \A j \in 1..(i - 1) : ~Matches(coll[j], filter)
    ELSE 0

RemoveAt(seq, i) == SubSeq(seq, 1, i - 1) \o SubSeq(seq, i + 1, Len(seq))

withoutInternal(item) ==
    [f \in (DOMAIN item) \ InternalFields |-> item[f]]

\* The document insertOne stores for item: the database assigns _id.
createOneDoc(item, id, t) ==
    LET safe == withoutInternal(item) IN
    [f \in (DOMAIN safe) \cup InternalFields |->
        IF f = "_id" THEN id
        ELSE IF f \in {"dateCreated", "dateUpdated"} THEN t
        ELSE safe[f]]

createOne(coll, item, id, t) == Append(coll, createOneDoc(item, id, t))

readOne(coll, filter) ==
    LET i == FirstMatch(coll, filter) IN
    IF i = 0 THEN Null ELSE coll[i]

readMany(coll, filter) == SelectSeq(coll, LAMBDA d : Matches(d, filter))

\* updateOne(filter, {$set: fields}) on the first match.
SetFields(doc, fields) ==
    [f \in (DOMAIN doc) \cup (DOMAIN fields) |->
        IF f \in DOMAIN fields THEN fields[f] ELSE doc[f]]

partialUpdateOne(coll, filter, update, t) ==
    LET i == FirstMatch(coll, filter)
        safe == withoutInternal(update)
        set == [f \in (DOMAIN safe) \cup {"dateUpdated"} |->
                   IF f = "dateUpdated" THEN t ELSE safe[f]]
    IN  IF i = 0 THEN coll
        ELSE [coll EXCEPT ![i] = SetFields(coll[i], set)]

deleteOne(coll, filter) ==
    LET i == FirstMatch(coll, filter) IN
    IF i = 0 THEN coll ELSE RemoveAt(coll, i)

Range(seq) == {seq[i] : i \in 1..Len(seq)}

\* Array.prototype.includes
Includes(arr, x) == x \in Range(arr)

\* $addToSet of one value: appended unless the array holds it.
addToSet(arr, x) == IF Includes(arr, x) THEN arr ELSE Append(arr, x)

RECURSIVE addEachToSet(_, _)
\* $addToSet with $each: the values are added one after the other.
addEachToSet(arr, xs) ==
    IF xs = <<>> THEN arr ELSE addEachToSet(addToSet(arr, Head(xs)), Tail(xs))

\* $pull of one value: every element equal to it is removed.
pull(arr, x) == SelectSeq(arr, LAMBDA y : y # x)

\* $pull with $in: every element among the values is removed.
pullIn(arr, xs) == SelectSeq(arr, LAMBDA y : ~Includes(xs, y))

\* collection.updateOne(filter, { $addToSet: { field: x } })
updateOneAddToSet(coll, filter, field, x) ==
    LET i == FirstMatch(coll, filter) IN
    IF i = 0 THEN coll ELSE [coll EXCEPT ![i][field] = addToSet(@, x)]

\* collection.updateOne(filter, { $pull: { field: x } })
updateOnePull(coll, filter, field, x) ==
    LET i == FirstMatch(coll, filter) IN
    IF i = 0 THEN coll ELSE [coll EXCEPT ![i][field] = pull(@, x)]

-----------------------------------------------------------------------------
(* server/concepts/sessioning.ts *)

Sessions == {"s1", "s2"}

\* The user ids given to Sessioning.start.
SessionUserIds == {7, 26}

\* getEmptySession(): a session with no user.
EmptySession == [cookie |-> "cookie"]

HasUser(session) == "user" \in DOMAIN session

isLoggedIn(session) ==
    IF ~HasUser(session) THEN "Unauthenticated" ELSE "ok"

isLoggedOutNoThrow(session) == "ok"

isLoggedOut(session) ==
    IF HasUser(session) THEN "NotAllowed" ELSE "ok"

\* session.user = user.toString()
SetUser(session, user) ==
    [f \in (DOMAIN session) \cup {"user"} |->
        IF f = "user" THEN toHexString(user) ELSE session[f]]

\* session.user = undefined
ClearUser(session) ==
    [f \in (DOMAIN session) \ {"user"} |-> session[f]]

\* Sessioning.start: [res, session]
start(session, user) ==
    IF isLoggedOut(session) # "ok"
    THEN [res |-> isLoggedOut(session), session |-> session]
    ELSE [res |-> "ok", session |-> SetUser(session, user)]

\* Sessioning.end: [res, session]
end(session) ==
    IF isLoggedIn(session) # "ok"
    THEN [res |-> isLoggedIn(session), session |-> session]
    ELSE [res |-> "ok", session |-> ClearUser(session)]

\* Sessioning.getUser: [res, user]
getUser(session) ==
    IF isLoggedIn(session) # "ok"
    THEN [res |-> isLoggedIn(session), user |-> 0]
    ELSE [res |-> "ok", user |-> ObjectId(session.user)]

SessEntry(op, user, r, before) ==
    [op |-> op, user |-> user, res |-> r.res, before |-> before, after |-> r.session]

SessStart(s, u) ==
    /\ Len(sessLog[s]) < MaxSessCalls
    /\ LET r == start(sessions[s], u) IN
        /\ sessions' = [sessions EXCEPT ![s] = r.session]
        /\ sessLog' = [sessLog EXCEPT ![s] = Append(@, SessEntry("start", u, r, sessions[s]))]
    /\ UNCHANGED <<storeVars, authVars, ctorVars, graphLast, tagVars, routeVars>>

SessEnd(s) ==
    /\ Len(sessLog[s]) < MaxSessCalls
    /\ LET r == end(sessions[s]) IN
        /\ sessions' = [sessions EXCEPT ![s] = r.session]
        /\ sessLog' = [sessLog EXCEPT ![s] = Append(@, SessEntry("end", 0, r, sessions[s]))]
    /\ UNCHANGED <<storeVars, authVars, ctorVars, graphLast, tagVars, routeVars>>

-----------------------------------------------------------------------------
(* server/concepts/authenticating.ts *)

Usernames == {"", "alice", "bob"}

Passwords == {"", "pw1", "pw2"}

UserIds == 1..MaxUserIds

assertUsernameUniqueNoThrow(coll, username) == "ok"

assertUsernameUnique(coll, username) ==
    IF readOne(coll, [username |-> username]) # Null THEN "NotAllowed" ELSE "ok"

\* !username || !password
badCredentials(username, password) == username = "" \/ password = ""

assertGoodCredentials(coll, username, password) ==
    IF badCredentials(username, password) THEN "BadValues"
    ELSE assertUsernameUnique(coll, username)

\* Authenticating.create: [res, users, ret], ret the user sent back.
create(coll, username, password, id, t) ==
    IF assertGoodCredentials(coll, username, password) # "ok"
    THEN [res |-> assertGoodCredentials(coll, username, password), users |-> coll, ret |-> Null]
    ELSE LET stored == createOne(coll, [username |-> username, password |-> password], id, t) IN
         [res |-> "ok", users |-> stored, ret |-> readOne(stored, [_id |-> id])]

authenticateAnyPassword(coll, username, password) ==
    LET user == readOne(coll, [username |-> username]) IN
    IF user = Null THEN [res |-> "NotAllowed", users |-> coll, ret |-> Null]
    ELSE [res |-> "ok", users |-> coll, ret |-> [_id |-> user._id]]

\* Authenticating.authenticate: [res, users, ret], ret._id the user's id.
authenticate(coll, username, password) ==
    LET user == readOne(coll, [username |-> username, password |-> password]) IN
    IF user = Null THEN [res |-> "NotAllowed", users |-> coll, ret |-> Null]
    ELSE [res |-> "ok", users |-> coll, ret |-> [_id |-> user._id]]

updateUsernameNoCheck(coll, id, username, t) ==
    [res |-> "ok",
     users |-> partialUpdateOne(coll, [_id |-> id], [username |-> username], t),
     ret |-> Null]

\* Authenticating.updateUsername
updateUsername(coll, id, username, t) ==
    IF assertUsernameUnique(coll, username) # "ok"
    THEN [res |-> assertUsernameUnique(coll, username), users |-> coll, ret |-> Null]
    ELSE [res |-> "ok",
          users |-> partialUpdateOne(coll, [_id |-> id], [username |-> username], t),
          ret |-> Null]

updatePasswordUnchecked(coll, id, currentPassword, newPassword, t) ==
    LET user == readOne(coll, [_id |-> id]) IN
    IF user = Null THEN [res |-> "NotFound", users |-> coll, ret |-> Null]
    ELSE [res |-> "ok",
          users |-> partialUpdateOne(coll, [_id |-> id], [password |-> newPassword], t),
          ret |-> Null]

\* Authenticating.updatePassword
updatePassword(coll, id, currentPassword, newPassword, t) ==
    LET user == readOne(coll, [_id |-> id]) IN
    IF user = Null THEN [res |-> "NotFound", users |-> coll, ret |-> Null]
    ELSE IF user.password # currentPassword
    THEN [res |-> "NotAllowed", users |-> coll, ret |-> Null]
    ELSE [res |-> "ok",
          users |-> partialUpdateOne(coll, [_id |-> id], [password |-> newPassword], t),
          ret |-> Null]

\* Authenticating.delete
delete(coll, id) ==
    [res |-> "ok", users |-> deleteOne(coll, [_id |-> id]), ret |-> Null]

\* Authenticating.redactPassword: the record without its password field.
redactPassword(user) ==
    [f \in (DOMAIN user) \ {"password"} |-> user[f]]

\* Authenticating.getUserById
getUserById(coll, _id) ==
    LET user == readOne(coll, [_id |-> _id]) IN
    IF user = Null THEN [res |-> "NotFound", users |-> coll, ret |-> Null]
    ELSE [res |-> "ok", users |-> coll, ret |-> redactPassword(user)]

\* Authenticating.getUserByUsername
getUserByUsername(coll, username) ==
    LET user == readOne(coll, [username |-> username]) IN
    IF user = Null THEN [res |-> "NotFound", users |-> coll, ret |-> Null]
    ELSE [res |-> "ok", users |-> coll, ret |-> redactPassword(user)]

\* Authenticating.getUsers: username "" stands for no username (both are
\* falsy and select every user).
getUsers(coll, username) ==
    LET found == IF username # "" THEN readMany(coll, [username |-> username]) ELSE coll IN
    [res |-> "ok", users |-> coll,
     ret |-> [i \in 1..Len(found) |-> redactPassword(found[i])]]

idsToUsernamesFound(coll, ids) ==
    LET found == SelectSeq(coll, LAMBDA u : Includes(ids, u._id)) IN
    [res |-> "ok", users |-> coll,
     ret |-> [i \in 1..Len(found) |-> found[i].username]]

\* Authenticating.idsToUsernames: the users are looked up by the string form
\* of their ids.
idsToUsernames(coll, ids) ==
    LET found == SelectSeq(coll, LAMBDA u : Includes(ids, u._id))
        idToUser(str) ==
            \* new Map(entries): a later entry of the same key replaces an earlier one.
            LET ks == {k \in 1..Len(found) : toHexString(found[k]._id) = str} IN
            IF ks = {} THEN Null ELSE found[CHOOSE k \in ks : \A j \in ks : j <= k]
    IN  [res |-> "ok", users |-> coll,
         ret |-> [i \in 1..Len(ids) |->
                    IF idToUser(toHexString(ids[i])) = Null THEN "DELETED_USER"
                    ELSE idToUser(toHexString(ids[i])).username]]

\* Whether some stored user bears the username.
Held(coll, username) ==
    \E i \in 1..Len(coll) : coll[i].username = username

\* The record of a call: its arguments, its outcome, whether the username it
\* was given was held when it began and whether it left every record as it was.
AuthEntry(op, username, password, id, r) ==
    [op |-> op, username |-> username, password |-> password, id |-> id,
     res |-> r.res, ret |-> r.ret,
     held |-> Held(users, username), unchanged |-> (r.users = users)]

\* The calls kept: the last one, and the one before it when that was a create
\* that stored a user.
Keep(log, e) ==
    IF Len(log) > 0 /\ log[Len(log)].op = "create" /\ log[Len(log)].res = "ok"
    THEN <<log[Len(log)], e>>
    ELSE <<e>>

AuthDone(e, r) ==
    /\ users' = r.users
    /\ authLog' = Keep(authLog, e)
    /\ UNCHANGED <<webapps, tagDocs, graphDocs, now, procs>>
    /\ UNCHANGED <<sessVars, ctorVars, graphLast, tagVars, routeVars>>

AuthCreate(username, password) ==
    /\ nextId <= MaxUserIds
    /\ LET r == create(users, username, password, nextId, now) IN
        /\ AuthDone(AuthEntry("create", username, password, 0, r), r)
        /\ nextId' = IF r.res = "ok" THEN nextId + 1 ELSE nextId

AuthAuthenticate(username, password) ==
    /\ LET r == authenticate(users, username, password) IN
        AuthDone(AuthEntry("authenticate", username, password, 0, r), r)
    /\ UNCHANGED nextId

AuthUpdateUsername(id, username) ==
    /\ LET r == updateUsername(users, id, username, now) IN
        AuthDone(AuthEntry("updateUsername", username, "", id, r), r)
    /\ UNCHANGED nextId

\* The username of the stored user with the id, "" when there is none.
UsernameOf(coll, id) ==
    IF readOne(coll, [_id |-> id]) = Null THEN "" ELSE readOne(coll, [_id |-> id]).username

\* The record of an updatePassword call: also the user's username, the
\* current password given and whether a user had the id.
UpdatePasswordEntry(id, currentPassword, newPassword, r) ==
    [op |-> "updatePassword", username |-> UsernameOf(users, id), password |-> newPassword,
     id |-> id, res |-> r.res, ret |-> r.ret,
     held |-> Held(users, UsernameOf(users, id)), unchanged |-> (r.users = users),
     current |-> currentPassword,
     stored |-> IF readOne(users, [_id |-> id]) = Null THEN [found |-> FALSE]
                ELSE [found |-> TRUE, password |-> readOne(users, [_id |-> id]).password]]

AuthUpdatePassword(id, currentPassword, newPassword) ==
    /\ LET r == updatePassword(users, id, currentPassword, newPassword, now) IN
        AuthDone(UpdatePasswordEntry(id, currentPassword, newPassword, r), r)
    /\ UNCHANGED nextId

AuthGetUserById(id) ==
    /\ LET r == getUserById(users, id) IN
        AuthDone(AuthEntry("getUserById", "", "", id, r), r)
    /\ UNCHANGED nextId

AuthGetUserByUsername(username) ==
    /\ LET r == getUserByUsername(users, username) IN
        AuthDone(AuthEntry("getUserByUsername", username, "", 0, r), r)
    /\ UNCHANGED nextId

AuthGetUsers(username) ==
    /\ LET r == getUsers(users, username) IN
        AuthDone(AuthEntry("getUsers", username, "", 0, r), r)
    /\ UNCHANGED nextId

\* The ids arguments of idsToUsernames: none, ids in another order than
\* stored with one repeated, an id the database never assigned.
IdLists == {<<>>, <<2, 1, 2>>, <<1, MaxUserIds + 1>>}

AuthIdsToUsernames(ids) ==
    /\ LET r == idsToUsernames(users, ids) IN
        AuthDone([op |-> "idsToUsernames", ids |-> ids, res |-> r.res, ret |-> r.ret,
                  unchanged |-> (r.users = users)], r)
    /\ UNCHANGED nextId

AuthDelete(id) ==
    /\ LET r == delete(users, id) IN
        AuthDone(AuthEntry("delete", "", "", id, r), r)
    /\ UNCHANGED nextId

-----------------------------------------------------------------------------
(* Authenticating.create as the steps of a request: every await of a store   *)
(* operation is a point where another request may run.                      *)

Requests == {"r1", "r2"}

Idle == [pc |-> "idle"]

RaceFrame ==
    /\ UNCHANGED <<webapps, tagDocs, graphDocs, now, authLog>>
    /\ UNCHANGED <<sessVars, ctorVars, graphLast, tagVars, routeVars>>

\* The call, up to its first await: the emptiness test of assertGoodCredentials.
RaceCall(r, username, password) ==
    /\ procs[r].pc = "idle"
    /\ procs' = [procs EXCEPT ![r] =
          IF badCredentials(username, password)
          THEN [pc |-> "done", res |-> "BadValues", username |-> username,
                password |-> password]
          ELSE [pc |-> "unique", username |-> username, password |-> password]]
    /\ UNCHANGED <<users, nextId>>
    /\ RaceFrame

\* await this.users.readOne({ username }) of assertUsernameUnique
RaceUnique(r) ==
    /\ procs[r].pc = "unique"
    /\ procs' = [procs EXCEPT ![r] =
          IF assertUsernameUnique(users, procs[r].username) # "ok"
          THEN [pc |-> "done", res |-> assertUsernameUnique(users, procs[r].username),
                username |-> procs[r].username, password |-> procs[r].password]
          ELSE [pc |-> "insert", username |-> procs[r].username,
                password |-> procs[r].password, seen |-> Len(users)]]
    /\ UNCHANGED <<users, nextId>>
    /\ RaceFrame

\* await this.users.createOne({ username, password })
RaceInsert(r) ==
    /\ procs[r].pc = "insert"
    /\ users' = createOne(users, [username |-> procs[r].username,
                                  password |-> procs[r].password], nextId, now)
    /\ nextId' = nextId + 1
    /\ procs' = [procs EXCEPT ![r] =
          [pc |-> "read", username |-> procs[r].username, password |-> procs[r].password,
           seen |-> procs[r].seen, id |-> nextId]]
    /\ RaceFrame

\* await this.users.readOne({ _id })
RaceRead(r) ==
    /\ procs[r].pc = "read"
    /\ procs' = [procs EXCEPT ![r] =
          [pc |-> "done", res |-> "ok", username |-> procs[r].username,
           password |-> procs[r].password, seen |-> procs[r].seen, id |-> procs[r].id,
           ret |-> readOne(users, [_id |-> procs[r].id])]]
    /\ UNCHANGED <<users, nextId>>
    /\ RaceFrame

-----------------------------------------------------------------------------
(* server/framework/doc.ts: the writing operations of a DocCollection, on a *)
(* collection held in webapps, with a clock that other actions advance.     *)

RECURSIVE createMany(_, _, _, _)
\* insertMany of the items, each stamped as createOne stamps it; the database
\* assigns the ids id, id + 1, ...
createMany(coll, items, id, t) ==
    IF Len(items) = 0 THEN coll
    ELSE createMany(createOne(coll, Head(items), id, t), Tail(items), id + 1, t)

\* collection.replaceOne(filter, safe): the first match keeps its _id and has
\* the fields of safe and no others.
replaceOne(coll, filter, item, t) ==
    LET i == FirstMatch(coll, filter)
        safe == withoutInternal(item)
    IN  IF i = 0 THEN coll
        ELSE [coll EXCEPT ![i] =
                [f \in (DOMAIN safe) \cup {"_id", "dateUpdated"} |->
                    IF f = "_id" THEN coll[i]._id
                    ELSE IF f = "dateUpdated" THEN t
                    ELSE safe[f]]]

\* The items and updates the callers supply, with and without values for the
\* id and the timestamps.
StoreItems ==
    {[v |-> 1],
     [v |-> 2, _id |-> 9, dateCreated |-> 9, dateUpdated |-> 0],
     [dateCreated |-> 5]}

StoreFilters == {[v |-> 1], [v |-> 2], [_id |-> 1]}

StoreFrame ==
    /\ UNCHANGED <<users, tagDocs, graphDocs>>
    /\ UNCHANGED <<sessVars, authVars, ctorVars, graphLast, tagVars, routeVars>>

\* Time passes.
StoreTick ==
    /\ now < MaxTime
    /\ now' = now + 1
    /\ UNCHANGED <<webapps, nextId>>
    /\ StoreFrame

StoreCreateOne(item) ==
    /\ Len(webapps) < MaxDocs
    /\ webapps' = createOne(webapps, item, nextId, now)
    /\ nextId' = nextId + 1
    /\ UNCHANGED now
    /\ StoreFrame

StoreCreateMany(items) ==
    /\ Len(webapps) + Len(items) <= MaxDocs
    /\ webapps' = createMany(webapps, items, nextId, now)
    /\ nextId' = nextId + Len(items)
    /\ UNCHANGED now
    /\ StoreFrame

StoreReplaceOne(filter, item) ==
    /\ webapps' = replaceOne(webapps, filter, item, now)
    /\ UNCHANGED <<nextId, now>>
    /\ StoreFrame

StorePartialUpdateOne(filter, update) ==
    /\ webapps' = partialUpdateOne(webapps, filter, update, now)
    /\ UNCHANGED <<nextId, now>>
    /\ StoreFrame

-----------------------------------------------------------------------------
(* server/framework/doc.ts: DocCollection.popOne as the steps of a request, *)
(* on a collection held in users.                                           *)

\* The filters popOne is called with.
PopFilters == {[k |-> "a"], [k |-> "b"]}

\* The collections popOne is called on: empty, one document, two documents
\* one filter matches, two documents matched by different filters.
PopStores ==
    {<<>>,
     <<[_id |-> 1, k |-> "a"]>>,
     <<[_id |-> 1, k |-> "a"], [_id |-> 2, k |-> "a"]>>,
     <<[_id |-> 1, k |-> "a"], [_id |-> 2, k |-> "b"]>>}

\* popOne(filter) is called.
PopCall(r, filter) ==
    /\ procs[r].pc = "idle"
    /\ procs' = [procs EXCEPT ![r] = [pc |-> "readOne", filter |-> filter]]
    /\ UNCHANGED <<users, nextId>>
    /\ RaceFrame

\* const one = await this.readOne(filter); if (one === null) return null
PopRead(r) ==
    /\ procs[r].pc = "readOne"
    /\ procs' = [procs EXCEPT ![r] =
          IF readOne(users, procs[r].filter) = Null
          THEN [pc |-> "done", filter |-> procs[r].filter, ret |-> Null]
          ELSE [pc |-> "deleteOne", filter |-> procs[r].filter,
                one |-> readOne(users, procs[r].filter)]]
    /\ UNCHANGED <<users, nextId>>
    /\ RaceFrame

\* await this.deleteOne({ _id: one._id }); return one
PopDelete(r) ==
    /\ procs[r].pc = "deleteOne"
    /\ users' = deleteOne(users, [_id |-> procs[r].one._id])
    /\ procs' = [procs EXCEPT ![r] =
          [pc |-> "done", filter |-> procs[r].filter, ret |-> procs[r].one]]
    /\ UNCHANGED nextId
    /\ RaceFrame

-----------------------------------------------------------------------------
(* server/framework/doc.ts: the DocCollection constructor. *)

CollectionNameSet == {"users", "webapps", "tags"}

\* new DocCollection(name): throws when the name is in collectionNames; the
\* constructor does not add the name to collectionNames.
Construct(name) ==
    /\ Len(constructed) < MaxStores
    /\ IF name \in collectionNames
       THEN /\ ctorLast' = "Error"
            /\ UNCHANGED <<collectionNames, constructed>>
       ELSE /\ ctorLast' = "ok"
            /\ constructed' = Append(constructed, name)
            /\ UNCHANGED collectionNames
    /\ UNCHANGED <<sessVars, storeVars, authVars, graphLast, tagVars, routeVars>>

-----------------------------------------------------------------------------
(* server/concepts/webapping.ts: GraphingConcept *)

\* Graphing.addNode
addNode(coll, item, owner, id, t) ==
    createOne(coll, [item |-> item, owner |-> owner, neighbors |-> <<>>], id, t)

addEdgeOneWay(coll, from, to) ==
    updateOneAddToSet(coll, [item |-> from], "neighbors", to)

\* Graphing.addEdge
addEdge(coll, from, to) ==
    updateOneAddToSet(updateOneAddToSet(coll, [item |-> from], "neighbors", to),
                      [item |-> to], "neighbors", from)

\* Graphing.deleteNode
deleteNode(coll, item) == deleteOne(coll, [item |-> item])

\* Graphing.deleteEdge
deleteEdge(coll, from, to) ==
    updateOnePull(updateOnePull(coll, [item |-> from], "neighbors", to),
                  [item |-> to], "neighbors", from)

RECURSIVE updateEdgesLoopAddOnly(_, _, _, _)
updateEdgesLoopAddOnly(coll, nodes, item, connected) ==
    IF nodes = <<>> THEN coll
    ELSE LET node == Head(nodes)
             next ==
                IF /\ toHexString(node.item) # toHexString(item)
                   /\ Includes(connected, toHexString(node.item))
                THEN addEdge(addEdge(coll, item, node.item), node.item, item)
                ELSE coll
         IN  updateEdgesLoopAddOnly(next, Tail(nodes), item, connected)

RECURSIVE updateEdgesLoop(_, _, _, _)
\* The loop of updateEdgesForUserNode over the nodes read at its start.
updateEdgesLoop(coll, nodes, item, connected) ==
    IF nodes = <<>> THEN coll
    ELSE LET node == Head(nodes)
             next ==
                IF toHexString(node.item) # toHexString(item)
                THEN IF Includes(connected, toHexString(node.item))
                     THEN addEdge(addEdge(coll, item, node.item), node.item, item)
                     ELSE deleteEdge(deleteEdge(coll, item, node.item), node.item, item)
                ELSE coll
         IN  updateEdgesLoop(next, Tail(nodes), item, connected)

\* Graphing.updateEdgesForUserNode
updateEdgesForUserNode(coll, user, item, connected) ==
    updateEdgesLoop(coll, readMany(coll, [owner |-> user]), item, connected)

\* Graphing.getUserNodes
getUserNodes(coll, user) == readMany(coll, [owner |-> user])

GraphOwners == {1, 2}

\* The items that get nodes, in this order; the node of item i gets _id i + 1.
GraphItems == {15, 17, 19}

HasNode(coll, item) == readOne(coll, [item |-> item]) # Null

\* The neighbours of the item's node.
Neighbors(coll, item) == readOne(coll, [item |-> item]).neighbors

RECURSIVE SetToSeq(_)
SetToSeq(S) ==
    IF S = {} THEN <<>>
    ELSE LET x == CHOOSE y \in S : \A z \in S : y <= z IN <<x>> \o SetToSeq(S \ {x})

\* The connected arguments: the string forms of some items, in order.
ConnectedLists ==
    {[i \in 1..Len(SetToSeq(S)) |-> toHexString(SetToSeq(S)[i])] : S \in SUBSET GraphItems}

GraphFrame ==
    /\ UNCHANGED <<users, webapps, tagDocs, now>>
    /\ UNCHANGED <<sessVars, authVars, ctorVars, tagVars, routeVars>>

\* addNode for a fresh item, as addWebapp calls it.
GraphAddNode(owner) ==
    /\ nextId \in GraphItems
    /\ graphDocs' = addNode(graphDocs, nextId, owner, nextId + 1, now)
    /\ nextId' = nextId + 2
    /\ graphLast' = [op |-> "addNode"]
    /\ GraphFrame

GraphAddEdge(from, to) ==
    /\ from # to
    /\ HasNode(graphDocs, from) /\ HasNode(graphDocs, to)
    /\ graphDocs' = addEdge(graphDocs, from, to)
    /\ graphLast' = [op |-> "addEdge"]
    /\ UNCHANGED nextId
    /\ GraphFrame

GraphDeleteEdge(from, to) ==
    /\ from # to
    /\ HasNode(graphDocs, from) /\ HasNode(graphDocs, to)
    /\ graphDocs' = deleteEdge(graphDocs, from, to)
    /\ graphLast' = [op |-> "deleteEdge"]
    /\ UNCHANGED nextId
    /\ GraphFrame

GraphUpdateEdges(user, item, connected) ==
    /\ HasNode(graphDocs, item)
    /\ graphDocs' = updateEdgesForUserNode(graphDocs, user, item, connected)
    /\ graphLast' = [op |-> "updateEdgesForUserNode", user |-> user, item |-> item,
                     connected |-> connected]
    /\ UNCHANGED nextId
    /\ GraphFrame

\* deleteNode of an item, as deleteWebapp calls it.
GraphDeleteNode(item) ==
    /\ graphDocs' = deleteNode(graphDocs, item)
    /\ graphLast' = [op |-> "deleteNode", item |-> item]
    /\ UNCHANGED nextId
    /\ GraphFrame

-----------------------------------------------------------------------------
(* server/concepts/tagging.ts *)

\* The _id of a new Tag Record.  No code reads a Tag Record's _id (records are
\* found by item), so the least id no stored record bears stands for a fresh one.
FreshId(coll) ==
    CHOOSE n \in 1..(Len(coll) + 1) :
        /\ \A i \in 1..Len(coll) : coll[i]._id # n
        /\ \A k \in 1..(n - 1) : \E i \in 1..Len(coll) : coll[i]._id = k

\* Tagging.create
createTags(coll, item, tags, t) ==
    createOne(coll, [item |-> item, tags |-> tags], FreshId(coll), t)

\* Tagging.ensureCreated
ensureCreated(coll, item, t) ==
    IF readOne(coll, [item |-> item]) = Null THEN createTags(coll, item, <<>>, t) ELSE coll

\* collection.updateOne({ item }, { $addToSet: { tags: { $each: tags } } })
updateOneAddEachToSet(coll, item, tags) ==
    LET i == FirstMatch(coll, [item |-> item]) IN
    IF i = 0 THEN coll ELSE [coll EXCEPT ![i].tags = addEachToSet(@, tags)]

\* collection.updateOne({ item }, { $pull: { tags: { $in: tags } } })
updateOnePullIn(coll, item, tags) ==
    LET i == FirstMatch(coll, [item |-> item]) IN
    IF i = 0 THEN coll ELSE [coll EXCEPT ![i].tags = pullIn(@, tags)]

addTagsAppend(coll, item, tags, t) ==
    LET i == FirstMatch(ensureCreated(coll, item, t), [item |-> item]) IN
    [res |-> "ok",
     docs |-> [ensureCreated(coll, item, t) EXCEPT ![i].tags = @ \o tags],
     spawn |-> FALSE]

\* Tagging.addTags: [res, docs, spawn]
addTags(coll, item, tags, t) ==
    [res |-> "ok",
     docs |-> updateOneAddEachToSet(ensureCreated(coll, item, t), item, tags),
     spawn |-> FALSE]

\* (await this.tags.readOne({ item }))?.tags.includes(tag)
HasTag(coll, item, tag) ==
    /\ readOne(coll, [item |-> item]) # Null
    /\ Includes(readOne(coll, [item |-> item]).tags, tag)

\* (await this.tags.readOne({ item }))?.tags.length === 0
HasNoTags(coll, item) ==
    /\ readOne(coll, [item |-> item]) # Null
    /\ Len(readOne(coll, [item |-> item]).tags) = 0

deleteTagsLenient(coll, item, tags, t) ==
    LET pulled == updateOnePullIn(ensureCreated(coll, item, t), item, tags) IN
    [res |-> "ok", docs |-> pulled, spawn |-> HasNoTags(pulled, item)]

deleteTagsKeepsRecord(coll, item, tags, t) ==
    LET created == ensureCreated(coll, item, t) IN
    IF \E k \in 1..Len(tags) : ~HasTag(created, item, tags[k])
    THEN [res |-> "DoesNotExist", docs |-> created, spawn |-> FALSE]
    ELSE [res |-> "ok", docs |-> updateOnePullIn(created, item, tags), spawn |-> FALSE]

\* Tagging.deleteTags: [res, docs, spawn], spawn when this.delete(item) is
\* started (and not awaited).
deleteTags(coll, item, tags, t) ==
    LET created == ensureCreated(coll, item, t)
        pulled == updateOnePullIn(created, item, tags)
    IN  IF \E k \in 1..Len(tags) : ~HasTag(created, item, tags[k])
        THEN [res |-> "DoesNotExist", docs |-> created, spawn |-> FALSE]
        ELSE [res |-> "ok", docs |-> pulled, spawn |-> HasNoTags(pulled, item)]

\* Tagging.getTagsForId: [res, docs, ret]
getTagsForId(coll, item, t) ==
    LET created == ensureCreated(coll, item, t)
        tags == readOne(created, [item |-> item])
    IN  [res |-> "ok", docs |-> created, spawn |-> FALSE,
         ret |-> IF tags = Null THEN <<>> ELSE tags.tags]

getMatchingItemsAnyItem(coll, item, others, t) ==
    LET created == ensureCreated(coll, item, t)
        tags == readOne(created, [item |-> item])
    IN  [res |-> "ok", docs |-> created, spawn |-> FALSE,
         ret |-> SelectSeq(created, LAMBDA other :
                    \E k \in 1..Len(other.tags) : Includes(tags.tags, other.tags[k]))]

\* Tagging.getMatchingItems: [res, docs, ret]
getMatchingItems(coll, item, others, t) ==
    LET created == ensureCreated(coll, item, t)
        tags == readOne(created, [item |-> item])
        items == SelectSeq(created, LAMBDA d : Includes(others, d.item))
    IN  [res |-> "ok", docs |-> created, spawn |-> FALSE,
         ret |-> IF tags = Null THEN <<>>
                 ELSE SelectSeq(items, LAMBDA other :
                         \E k \in 1..Len(other.tags) : Includes(tags.tags, other.tags[k]))]

\* The tags stored for the item: those of its first Tag Record, none without one.
TagsOf(coll, item) ==
    IF readOne(coll, [item |-> item]) = Null THEN <<>>
    ELSE readOne(coll, [item |-> item]).tags

TagX == <<"x">>

TagY == <<"y">>

TagItems == {1}

\* The tags arguments: none, one tag, two tags, one tag twice.
TagLists == {<<>>, <<TagX>>, <<TagY>>, <<TagX, TagY>>, <<TagX, TagX>>}

\* this.delete(item), started and not awaited: its read is under way.
Spawned(item) == [item |-> item, pc |-> "ensure"]

\* A step of a floating delete came between the last call and what follows.
Disturb(log) ==
    IF Len(log) = 0 THEN log
    ELSE [log EXCEPT ![Len(log)].disturbed = TRUE]

FloatFrame ==
    /\ tagLog' = Disturb(tagLog)
    /\ UNCHANGED <<users, webapps, graphDocs, nextId, now>>
    /\ UNCHANGED <<sessVars, authVars, ctorVars, graphLast, routeVars>>

\* The floating delete e takes a step and becomes e2.
Stepped(e, e2) == (floating (-) SetToBag({e})) (+) SetToBag({e2})

\* delete -> ensureCreated: await this.tags.readOne({ item })
FloatEnsure(e) ==
    /\ BagIn(e, floating)
    /\ e.pc = "ensure"
    /\ floating' = Stepped(e, [e EXCEPT !.pc =
          IF readOne(tagDocs, [item |-> e.item]) = Null THEN "create" ELSE "delete"])
    /\ UNCHANGED tagDocs
    /\ FloatFrame

\* delete -> ensureCreated: await this.create(item, [])
FloatCreate(e) ==
    /\ BagIn(e, floating)
    /\ e.pc = "create"
    /\ tagDocs' = createTags(tagDocs, e.item, <<>>, now)
    /\ floating' = Stepped(e, [e EXCEPT !.pc = "delete"])
    /\ FloatFrame

\* delete: await this.tags.deleteOne({ item })
FloatDelete(e) ==
    /\ BagIn(e, floating)
    /\ e.pc = "delete"
    /\ tagDocs' = deleteOne(tagDocs, [item |-> e.item])
    /\ floating' = floating (-) SetToBag({e})
    /\ FloatFrame

\* The record of a call: its arguments, its outcome, the item's tags and the
\* Tag Records when it began.
TagEntry(op, item, tags, r) ==
    [op |-> op, item |-> item, tags |-> tags, res |-> r.res,
     before |-> TagsOf(tagDocs, item), docs |-> tagDocs, disturbed |-> FALSE]

\* The calls kept: the last one, and the one before it when both are the same
\* addTags call.
KeepTag(log, e) ==
    IF /\ Len(log) > 0
       /\ log[Len(log)].op = "addTags" /\ e.op = "addTags"
       /\ log[Len(log)].item = e.item /\ log[Len(log)].tags = e.tags
    THEN <<log[Len(log)], e>>
    ELSE <<e>>

TagDone(e, r) ==
    /\ r.spawn => BagCardinality(floating) < MaxFloating
    /\ tagDocs' = r.docs
    /\ floating' = IF r.spawn THEN floating (+) SetToBag({Spawned(e.item)}) ELSE floating
    /\ tagLog' = KeepTag(tagLog, e)
    /\ UNCHANGED <<users, webapps, graphDocs, nextId, now>>
    /\ UNCHANGED <<sessVars, authVars, ctorVars, graphLast, routeVars>>

TagAddTags(item, tags) ==
    LET r == addTags(tagDocs, item, tags, now) IN
    TagDone(TagEntry("addTags", item, tags, r), r)

TagDeleteTags(item, tags) ==
    LET r == deleteTags(tagDocs, item, tags, now) IN
    TagDone(TagEntry("deleteTags", item, tags, r), r)

TagGetTagsForId(item) ==
    LET r == getTagsForId(tagDocs, item, now) IN
    TagDone(TagEntry("getTagsForId", item, <<>>, r), r)

-----------------------------------------------------------------------------
(* server/concepts/tagging.ts: the queries over the Tag Records *)

\* this.tags.readMany({ item: { $in: items } })
readManyItemIn(coll, items) == SelectSeq(coll, LAMBDA d : Includes(items, d.item))

RECURSIVE CountRecord(_, _)
\* for (const t of tag.tags) acc[t] = (acc[t] || 0) + 1: acc lists the keys in
\* the order they were first set (the order Object.entries gives for keys
\* that are not array indices).
CountRecord(acc, ts) ==
    IF ts = <<>> THEN acc
    ELSE LET t == Head(ts)
             k == CHOOSE i \in 0..Len(acc) :
                    IF \E j \in 1..Len(acc) : acc[j].tag = t
                    THEN i > 0 /\ acc[i].tag = t
                    ELSE i = 0
         IN  CountRecord(IF k = 0 THEN Append(acc, [tag |-> t, count |-> 1])
                         ELSE [acc EXCEPT ![k].count = @ + 1],
                         Tail(ts))

RECURSIVE CountTags(_, _)
\* tags.reduce(..., {})
CountTags(acc, records) ==
    IF records = <<>> THEN acc
    ELSE CountTags(CountRecord(acc, Head(records).tags), Tail(records))

\* One step of the stable sort: e goes after every pair whose count is not smaller.
InsertByCount(sorted, e) ==
    LET k == Cardinality({i \in 1..Len(sorted) : sorted[i].count >= e.count}) IN
    SubSeq(sorted, 1, k) \o <<e>> \o SubSeq(sorted, k + 1, Len(sorted))

SortByCountNot(pairs) == pairs

RECURSIVE SortByCount(_)
\* .sort((a, b) => b[1] - a[1]): stable, largest count first.
SortByCount(pairs) ==
    IF pairs = <<>> THEN <<>>
    ELSE InsertByCount(SortByCount(SubSeq(pairs, 1, Len(pairs) - 1)), pairs[Len(pairs)])

\* .slice(0, n): a negative n counts from the end of the array.
SliceTo(arr, n) ==
    LET stop == IF n < 0 THEN (IF Len(arr) + n < 0 THEN 0 ELSE Len(arr) + n)
                ELSE IF n > Len(arr) THEN Len(arr) ELSE n
    IN  SubSeq(arr, 1, stop)

\* Tagging.topTagsForItems: [res, docs, ret], ret the (tag, count) pairs.
topTagsForItems(coll, items, limit) ==
    [res |-> "ok", docs |-> coll, spawn |-> FALSE,
     ret |-> SliceTo(SortByCount(CountTags(<<>>, readManyItemIn(coll, items))), limit)]

TagA == <<"a">>

TagB == <<"b">>

TagC == <<"c">>

QueryItems == {1, 2, 3}

\* The tags the items were given.
QueryTagLists == {<<>>, <<TagA, TagB>>, <<TagB, TagC>>, <<TagB>>}

\* The sequences of different items, of every length.
ItemOrders ==
    {o \in UNION {[1..n -> QueryItems] : n \in 0..Cardinality(QueryItems)} :
        \A i, j \in 1..Len(o) : o[i] = o[j] => i = j}

RECURSIVE BuildTags(_, _, _)
\* The store after addTags(order[k], given[order[k]]) for k = 1, 2, ...
BuildTags(coll, order, given) ==
    IF order = <<>> THEN coll
    ELSE BuildTags(addTags(coll, Head(order), given[Head(order)], 0).docs, Tail(order), given)

\* The items arguments of the queries: none, some, all, one repeated, one
\* without a Tag Record among them.
ItemLists == {<<>>, <<2>>, <<1, 2>>, <<3, 1, 3>>, <<1, 2, 3>>}

Limits == 0..MaxLimit

QueryDone(e, r) ==
    /\ tagDocs' = r.docs
    /\ tagLog' = <<e>>
    /\ UNCHANGED <<users, webapps, graphDocs, nextId, now, floating>>
    /\ UNCHANGED <<sessVars, authVars, ctorVars, graphLast, routeVars>>

QueryGetMatchingItems(item, others) ==
    LET r == getMatchingItems(tagDocs, item, others, now) IN
    QueryDone([op |-> "getMatchingItems", item |-> item, items |-> others,
               limit |-> 0, ret |-> r.ret], r)

QueryTopTagsForItems(items, limit) ==
    LET r == topTagsForItems(tagDocs, items, limit) IN
    QueryDone([op |-> "topTagsForItems", item |-> 0, items |-> items,
               limit |-> limit, ret |-> r.ret], r)

-----------------------------------------------------------------------------
(* server/routes.ts: the bookmark and tag routes, over Webapping, Tagging,    *)
(* Graphing, Sessioning and Posting.                                          *)

\* Webapping.create: the collection with the new bookmark, whose _id is id.
createWebapp(coll, user, name, description, url, id, t) ==
    createOne(coll, [user |-> user, name |-> name, description |-> description, url |-> url],
              id, t)

\* Webapping.getByUser
getByUser(coll, user) == readMany(coll, [user |-> user])

\* Webapping.getOwner: [res, ret], the owner's id as a string; no bookmark of
\* that id is a failure.
getOwner(coll, _id) ==
    LET webapp == readOne(coll, [_id |-> _id]) IN
    IF webapp = Null THEN [res |-> "NotFound", ret |-> <<>>]
    ELSE [res |-> "ok", ret |-> toHexString(webapp.user)]

\* Posting.create, seen by the number of posts.
createPost(n) == IF n < MaxPosts THEN n + 1 ELSE n

RECURSIVE split(_, _)
\* str.split(sep) for a one-character sep: the pieces between the separators.
split(str, sep) ==
    IF \A i \in 1..Len(str) : str[i] # sep THEN <<str>>
    ELSE LET k == CHOOSE i \in 1..Len(str) :
                    str[i] = sep /\ \A j \in 1..(i - 1) : str[j] # sep
         IN  <<SubSeq(str, 1, k - 1)>> \o split(SubSeq(str, k + 1, Len(str)), sep)

\* neighbors.map((w) => w._id)
Ids(docs) == [i \in 1..Len(docs) |-> docs[i]._id]

\* matching.map((w) => w.item.toString())
ItemStrings(docs) == [i \in 1..Len(docs) |-> toHexString(docs[i].item)]

\* What a route that throws before its first write leaves.
RouteFailed(res) ==
    [res |-> res, webapps |-> webapps, tagDocs |-> tagDocs, graphDocs |-> graphDocs,
     nextId |-> nextId, nPosts |-> nPosts, spawn |-> FALSE]

\* Routes.addWebapp
addWebapp(session, name, description, url) ==
    LET u == getUser(session) IN
    IF u.res # "ok" THEN RouteFailed(u.res)
    ELSE [res |-> "ok",
          webapps |-> createWebapp(webapps, u.user, name, description, url, nextId, now),
          tagDocs |-> tagDocs,
          graphDocs |-> addNode(graphDocs, nextId, u.user, nextId + 1, now),
          nextId |-> nextId + 2,
          nPosts |-> createPost(nPosts),
          spawn |-> FALSE]

\* The part the two tag routes share, from the result t of the Tagging call on:
\* the edges of the bookmark's node are recomputed from the matching items.
TagRouteTail(u, item, t) ==
    LET neighbors == getByUser(webapps, u.user)
        matching == getMatchingItems(t.docs, item, Ids(neighbors), now)
    IN  [res |-> "ok",
         webapps |-> webapps,
         tagDocs |-> matching.docs,
         graphDocs |-> updateEdgesForUserNode(graphDocs, u.user, item,
                                              ItemStrings(matching.ret)),
         nextId |-> nextId,
         nPosts |-> createPost(nPosts),
         spawn |-> t.spawn]

\* What the two tag routes open with: the session's user must own the bookmark.
TagRouteRefusal(session, _id) ==
    LET u == getUser(session)
        owner == getOwner(webapps, ObjectId(_id))
    IN  IF u.res # "ok" THEN u.res
        ELSE IF owner.res # "ok" THEN owner.res
        ELSE IF owner.ret # toHexString(u.user) THEN "WrongUser"
        ELSE "ok"

\* Routes.addTagsToWebapp
addTagsToWebapp(session, _id, tags) ==
    LET t == addTags(tagDocs, ObjectId(_id), split(tags, ","), now) IN
    IF TagRouteRefusal(session, _id) # "ok" THEN RouteFailed(TagRouteRefusal(session, _id))
    ELSE TagRouteTail(getUser(session), ObjectId(_id), t)

\* Routes.deleteTagsFromWebapp
deleteTagsFromWebapp(session, _id, tags) ==
    LET t == deleteTags(tagDocs, ObjectId(_id), split(tags, ","), now) IN
    IF TagRouteRefusal(session, _id) # "ok" THEN RouteFailed(TagRouteRefusal(session, _id))
    ELSE IF t.res # "ok" THEN [RouteFailed(t.res) EXCEPT !.tagDocs = t.docs]
    ELSE TagRouteTail(getUser(session), ObjectId(_id), t)

\* The bookmarks' ids in the order the store assigns them; the node of
\* bookmark i gets _id i + 1.
WebappIds == {15, 17}

\* The _id parameters of the tag routes.
WebappIdStrings == {toHexString(i) : i \in WebappIds}

\* The tags parameters of the tag routes: "x", "y", "x,y".
TagStrings == {<<"x">>, <<"y">>, <<"x", ",", "y">>}

RouteDone(item, r) ==
    /\ r.spawn => BagCardinality(floating) < MaxFloating
    /\ webapps' = r.webapps
    /\ tagDocs' = r.tagDocs
    /\ graphDocs' = r.graphDocs
    /\ nextId' = r.nextId
    /\ nPosts' = r.nPosts
    /\ UNCHANGED <<errorHandlers, lastRequest>>
    /\ floating' = IF r.spawn THEN floating (+) SetToBag({Spawned(item)}) ELSE floating
    /\ UNCHANGED <<users, now, tagLog>>
    /\ UNCHANGED <<sessVars, authVars, ctorVars, graphLast>>

RouteAddWebapp(s) ==
    /\ nextId \in WebappIds
    /\ RouteDone(nextId, addWebapp(sessions[s], "name", "description", "url"))

RouteAddTagsToWebapp(s, _id, tags) ==
    RouteDone(ObjectId(_id), addTagsToWebapp(sessions[s], _id, tags))

RouteDeleteTagsFromWebapp(s, _id, tags) ==
    RouteDone(ObjectId(_id), deleteTagsFromWebapp(sessions[s], _id, tags))

-----------------------------------------------------------------------------
(* server/framework/router.ts and server/concepts/errors.ts: the errors and   *)
(* the dispatcher that turns a request into a call of a route's handler and   *)
(* the handler's outcome into a response.                                     *)

\* JavaScript values of a request: undefined, or a string.
Undefined == [t |-> "undefined"]

StringValue(v) == [t |-> "string", v |-> v]

\* A format is a sequence of pieces: text, [lit |-> text], or a placeholder
\* {n}, [ph |-> n].  A message is the sequence of the texts of its pieces.
Lit(text) == [lit |-> text]

Placeholder(n) == [ph |-> n]

\* The text of the placeholders {0}, {1}, {2}.
PlaceholderText == <<"{0}", "{1}", "{2}">>

\* format.replace(/{(\d+)}/g, ...): a placeholder becomes its argument, and
\* stays as it is when there is no such argument.
Render(format, args) ==
    [i \in 1..Len(format) |->
        IF "ph" \in DOMAIN format[i]
        THEN IF format[i].ph < Len(args) THEN args[format[i].ph + 1]
             ELSE PlaceholderText[format[i].ph + 1]
        ELSE format[i].lit]

\* The six kinds of errors.ts.
TaxonomyKinds ==
    {"BadValues", "Unauthenticated", "NotAllowed", "NotFound", "WrongUser", "DoesNotExist"}

\* HTTP_CODE of the class.
HttpCode(class) ==
    CASE class = "BadValues" -> 400
      [] class = "Unauthenticated" -> 401
      [] class = "NotAllowed" -> 403
      [] class = "NotFound" -> 404
      [] class = "WrongUser" -> 409
      [] class = "DoesNotExist" -> 410
      [] OTHER -> 500

\* The class a class extends.
Super(class) ==
    IF class \in TaxonomyKinds THEN "FormattableError"
    ELSE IF class = "FormattableError" THEN "Error"
    ELSE "Object"

\* err instanceof etype
InstanceOf(err, etype) ==
    \/ err.class = etype
    \/ Super(err.class) = etype
    \/ Super(Super(err.class)) = etype

\* new <class>(format, ...args), for FormattableError and the six kinds.
NewFormattable(class, format, args) ==
    [class |-> class, format |-> format, message |-> Render(format, args),
     HTTP_CODE |-> HttpCode(class)]

\* new Error(message)
NewError(message) == [class |-> "Error", message |-> message]

\* throw of a value that is not an Error: a string.
ThrownString(text) == [class |-> "string", text |-> text]

\* FormattableError.formatWith
formatWith(e, args) ==
    [NewFormattable("FormattableError", e.format, args) EXCEPT !.HTTP_CODE = e.HTTP_CODE]

\* `${err}`
ErrorText(err) ==
    IF "message" \in DOMAIN err
    THEN <<IF err.class = "TypeError" THEN "TypeError" ELSE "Error", ": ">> \o err.message
    ELSE <<err.text>>

\* The error handleError's catch returns when a handler throws e.
WhileHandling(err, e) ==
    NewError(<<"While handling below error:\n">> \o ErrorText(err)
             \o <<"\n\nAnother error occurred:\n">> \o ErrorText(e))

\* The arguments a registered handler re-renders the error with.
HandlerArgs == <<"alice", "p1">>

\* A registered handler called on err: it returns err.formatWith(...), which
\* throws for an error that has no formatWith, or it throws.
CallHandler(handler, err) ==
    IF handler = "formatWith" /\ "format" \in DOMAIN err
    THEN [threw |-> FALSE, ret |-> formatWith(err, HandlerArgs)]
    ELSE IF handler = "formatWith"
    THEN [threw |-> TRUE, ret |-> [class |-> "TypeError", message |-> <<"err.formatWith is not a function">>]]
    ELSE [threw |-> TRUE, ret |-> NewError(<<"handler failed">>)]

\* The first registered handler whose type err is an instance of, 0 for none.
FirstHandler(handlers, err) ==
    IF \E k \in 1..Len(handlers) : InstanceOf(err, handlers[k].etype)
    THEN CHOOSE k \in 1..Len(handlers) :
            /\ InstanceOf(err, handlers[k].etype)
            /\ \A j \in 1..(k - 1) : ~InstanceOf(err, handlers[j].etype)
    ELSE 0

\* What the handler handleError applies to err does, "none" when no
\* registered type matches.
AppliedHandler(handlers, err) ==
    IF FirstHandler(handlers, err) = 0 THEN "none"
    ELSE handlers[FirstHandler(handlers, err)].handler

\* Router.handleError
handleError(handlers, err) ==
    LET k == FirstHandler(handlers, err) IN
    IF k = 0 THEN err
    ELSE IF CallHandler(handlers[k].handler, err).threw
         THEN WhileHandling(err, CallHandler(handlers[k].handler, err).ret)
         ELSE CallHandler(handlers[k].handler, err).ret

\* Router.registerError: Map.set keeps the place of a type already registered.
registerError(handlers, etype, handler) ==
    IF \E k \in 1..Len(handlers) : handlers[k].etype = etype
    THEN [k \in 1..Len(handlers) |->
            IF handlers[k].etype = etype THEN [etype |-> etype, handler |-> handler]
            ELSE handlers[k]]
    ELSE Append(handlers, [etype |-> etype, handler |-> handler])

ErrorResponseAlways500(error) ==
    [status |-> 500,
     body |-> [msg |-> IF "message" \in DOMAIN error THEN error.message
                       ELSE <<"Internal Server Error">>]]

\* res.status(error.HTTP_CODE ?? 500).json({ msg: error.message ?? "Internal Server Error" })
ErrorResponse(error) ==
    [status |-> IF "HTTP_CODE" \in DOMAIN error THEN error.HTTP_CODE ELSE 500,
     body |-> [msg |-> IF "message" \in DOMAIN error THEN error.message
                       ELSE <<"Internal Server Error">>]]

\* res.status(400).json({ msg: "Bad Request: validation failed" })
ValidationResponse == [status |-> 400, body |-> [msg |-> <<"Bad Request: validation failed">>]]

\* res.json(result)
ResultResponse(result) == [status |-> 200, body |-> result]

\* a || b || c
Or3(a, b, c) ==
    LET falsy(x) == x = Undefined \/ x = StringValue("") IN
    IF ~falsy(a) THEN a ELSE IF ~falsy(b) THEN b ELSE c

\* req.params[name], req.query[name], req.body[name]
Field(obj, name) == IF name \in DOMAIN obj THEN obj[name] ELSE Undefined

\* reqMap(name), for a name that is not session, param, query or body.
reqMap(req, name) == Or3(Field(req.params, name), Field(req.query, name), Field(req.body, name))

\* z.object({ username: z.string().min(1) }).parse(args) does not throw.
UsernameSchemaParses(args) ==
    /\ args.username.t = "string"
    /\ args.username.v # ""

\* What a handler did: it threw value, or returned it; the users it left.
Threw(value, coll) == [threw |-> TRUE, value |-> value, users |-> coll]

Returned(value, coll) == [threw |-> FALSE, value |-> value, users |-> coll]

\* A string argument as the handler's tests see it: undefined is falsy as "" is.
ArgString(v) == IF v.t = "string" THEN v.v ELSE ""

\* Routes.getUser called with the arguments.
getUserHandler(args) ==
    LET r == getUserByUsername(users, ArgString(args.username)) IN
    IF r.res = "ok" THEN Returned(r.ret, users)
    ELSE Threw(NewFormattable(r.res, <<Lit("User not found!")>>, <<>>), users)

\* Routes.createUser called with the arguments.
createUserHandler(args) ==
    LET username == ArgString(args.username)
        password == ArgString(args.password)
        r == create(users, username, password, nextId, now)
    IN  IF isLoggedOut(args.session) # "ok"
        THEN Threw(NewFormattable(isLoggedOut(args.session), <<Lit("Must be logged out!")>>, <<>>),
                   users)
        ELSE IF r.res = "BadValues"
        THEN Threw(NewFormattable(r.res, <<Lit("Username and password must be non-empty!")>>, <<>>),
                   users)
        ELSE IF r.res # "ok"
        THEN Threw(NewFormattable(r.res, <<Lit("User with username "), Lit(username),
                                           Lit(" already exists!")>>, <<>>), users)
        ELSE Returned([msg |-> "User created successfully!", user |-> r.ret], r.users)

makeRouteCallsAnyway(hasValidator, parses, o) ==
    [validated |-> IF ~hasValidator THEN "none" ELSE IF parses THEN "passed" ELSE "failed",
     invoked |-> TRUE,
     thrown |-> Null, handler |-> "none", error |-> Null,
     response |-> IF hasValidator /\ ~parses THEN ValidationResponse
                  ELSE ResultResponse(o.value),
     users |-> o.users]

\* The request handler Router.makeRoute returns, for a route with or without
\* a validator, whose arguments parse or not, and whose handler does o when
\* it is called.
makeRoute(hasValidator, parses, o) ==
    IF hasValidator /\ ~parses
    THEN [validated |-> "failed", invoked |-> FALSE,
          thrown |-> Null, handler |-> "none", error |-> Null,
          response |-> ValidationResponse, users |-> users]
    ELSE [validated |-> IF hasValidator THEN "passed" ELSE "none", invoked |-> TRUE,
          thrown |-> IF o.threw THEN o.value ELSE Null,
          handler |-> IF o.threw THEN AppliedHandler(errorHandlers, o.value) ELSE "none",
          error |-> IF o.threw THEN handleError(errorHandlers, o.value) ELSE Null,
          response |-> IF o.threw THEN ErrorResponse(handleError(errorHandlers, o.value))
                       ELSE ResultResponse(o.value),
          users |-> o.users]

\* The types handlers are registered for, and what a handler does.
HandledTypes == {"NotFound", "Error"}

Handlers == {"formatWith", "throws"}

\* The formats and arguments of the errors a handler throws.
Formats ==
    {<<Lit("User not found!")>>,
     <<Placeholder(0), Lit(" is not the author of post "), Placeholder(1), Lit("!")>>}

ArgLists == {<<>>, <<"bob">>, <<"bob", "p7">>}

\* What a handler throws: an error of one of the six kinds or a plain
\* FormattableError, an Error of another class, a value that is no Error.
ThrownValues ==
    {NewFormattable(class, format, args) :
        class \in TaxonomyKinds \cup {"FormattableError"}, format \in Formats, args \in ArgLists}
    \cup {NewError(<<"MongoDB Connection failed: ", "ETIMEDOUT">>), ThrownString("oops")}

\* The username a request carries in its path and in its query.
RequestUsernames == {Undefined, StringValue(""), StringValue("alice"), StringValue("zed")}

RouterFrame ==
    /\ UNCHANGED <<webapps, tagDocs, graphDocs, now, nPosts>>
    /\ UNCHANGED <<sessVars, authVars, ctorVars, graphLast, tagVars>>

RouterDone(route, args, r) ==
    /\ users' = r.users
    /\ lastRequest' = [route |-> route, args |-> args, validated |-> r.validated,
                       invoked |-> r.invoked, thrown |-> r.thrown, handler |-> r.handler,
                       error |-> r.error, response |-> r.response,
                       unchanged |-> (r.users = users)]
    /\ UNCHANGED errorHandlers
    /\ RouterFrame

RouterRegisterError(etype, handler) ==
    /\ errorHandlers' = registerError(errorHandlers, etype, handler)
    /\ UNCHANGED <<users, nextId, lastRequest>>
    /\ RouterFrame

\* GET /users/:username
RouterGetUser(inPath, inQuery) ==
    LET req == [params |-> [username |-> inPath], query |-> [username |-> inQuery],
                body |-> [none |-> Undefined]]
        args == [username |-> reqMap(req, "username")]
    IN  /\ RouterDone("getUser", args,
                      makeRoute(TRUE, UsernameSchemaParses(args), getUserHandler(args)))
        /\ UNCHANGED nextId

\* POST /users
RouterCreateUser(s, username, password) ==
    LET req == [params |-> [none |-> Undefined], query |-> [none |-> Undefined],
                body |-> [username |-> username, password |-> password]]
        args == [session |-> sessions[s], username |-> reqMap(req, "username"),
                 password |-> reqMap(req, "password")]
        r == makeRoute(FALSE, TRUE, createUserHandler(args))
    IN  /\ nextId <= MaxUserIds
        /\ RouterDone("createUser", [username |-> args.username], r)
        /\ nextId' = IF r.users # users THEN nextId + 1 ELSE nextId

\* A route without validator whose handler throws the value.
RouterThrow(value) ==
    /\ RouterDone("throw", [username |-> Undefined],
                  makeRoute(FALSE, TRUE, Threw(value, users)))
    /\ UNCHANGED nextId

-----------------------------------------------------------------------------
(* server/routes.ts: the routes that read the acting user from the session, *)
(* and logIn and logOut, as the dispatcher answers them.                    *)

\* A route's outcome with the session and the users it leaves: the outcome r
\* of a route that writes neither.
Outcome(session, r) ==
    [res |-> r.res, session |-> session, users |-> users, webapps |-> r.webapps,
     tagDocs |-> r.tagDocs, graphDocs |-> r.graphDocs, nextId |-> r.nextId,
     nPosts |-> r.nPosts, spawn |-> r.spawn]

\* A route that throws res before its first write, or returns after none.
Untouched(session, res) == Outcome(session, RouteFailed(res))

deleteWebappAnyUser(session, _id) ==
    IF getUser(session).res # "ok" THEN Untouched(session, getUser(session).res)
    ELSE [Untouched(session, "ok") EXCEPT
            !.webapps = deleteOne(webapps, [_id |-> ObjectId(_id)]),
            !.graphDocs = deleteNode(graphDocs, ObjectId(_id)),
            !.nPosts = createPost(nPosts)]

\* Routes.deleteWebapp
deleteWebapp(session, _id) ==
    IF TagRouteRefusal(session, _id) # "ok"
    THEN Untouched(session, TagRouteRefusal(session, _id))
    ELSE [Untouched(session, "ok") EXCEPT
            !.webapps = deleteOne(webapps, [_id |-> ObjectId(_id)]),
            !.graphDocs = deleteNode(graphDocs, ObjectId(_id)),
            !.nPosts = createPost(nPosts)]

\* Webapping.setName, setDescription, setUrl
setField(coll, _id, field, value) ==
    partialUpdateOne(coll, [_id |-> _id], [f \in {field} |-> value], now)

\* Routes.patchWebapp: a field whose argument is the empty string is left.
patchWebapp(session, _id, name, description, url) ==
    LET named == IF name # "" THEN setField(webapps, ObjectId(_id), "name", name)
                 ELSE webapps
        described == IF description # ""
                     THEN setField(named, ObjectId(_id), "description", description)
                     ELSE named
        located == IF url # "" THEN setField(described, ObjectId(_id), "url", url)
                   ELSE described
    IN  IF TagRouteRefusal(session, _id) # "ok"
        THEN Untouched(session, TagRouteRefusal(session, _id))
        ELSE [Untouched(session, "ok") EXCEPT
                !.webapps = located, !.nPosts = createPost(nPosts)]

\* Routes.viewTagsForWebapp
viewTagsForWebapp(session, _id) ==
    IF getUser(session).res # "ok" THEN Untouched(session, getUser(session).res)
    ELSE [Untouched(session, "ok") EXCEPT
            !.tagDocs = getTagsForId(tagDocs, ObjectId(_id), now).docs]

\* The routes that read the stores for the session's user: viewAllWebapps,
\* filterWebappsByTag, userTopTags, getGraphNodes, getSessionUser.
SessionReaders ==
    {"viewAllWebapps", "filterWebappsByTag", "userTopTags", "getGraphNodes", "getSessionUser"}

sessionReader(route, session) ==
    LET u == getUser(session) IN
    IF u.res # "ok" THEN Untouched(session, u.res)
    ELSE IF route = "getSessionUser"
    THEN Untouched(session, getUserById(users, u.user).res)
    ELSE Untouched(session, "ok")

\* The post routes and two of the seven friend routes, which all have this
\* shape: Sessioning.getUser, then calls of Posting and Friending, of which
\* the model keeps the number of posts created.
PostAndFriendRoutes ==
    {"createPost", "updatePost", "deletePost", "removeFriend", "sendFriendRequest"}

postOrFriendRoute(route, session) ==
    LET u == getUser(session) IN
    IF u.res # "ok" THEN Untouched(session, u.res)
    ELSE IF route = "createPost"
    THEN [Untouched(session, "ok") EXCEPT !.nPosts = createPost(nPosts)]
    ELSE Untouched(session, "ok")

\* Routes.createUser
createUser(session, username, password) ==
    LET c == create(users, username, password, nextId, now) IN
    IF isLoggedOut(session) # "ok" THEN Untouched(session, isLoggedOut(session))
    ELSE [Untouched(session, c.res) EXCEPT
            !.users = c.users,
            !.nextId = IF c.res = "ok" THEN nextId + 1 ELSE nextId]

\* Routes.updateUsername
RoutesUpdateUsername(session, username) ==
    LET u == getUser(session) IN
    IF u.res # "ok" THEN Untouched(session, u.res)
    ELSE [Untouched(session, updateUsername(users, u.user, username, now).res) EXCEPT
            !.users = updateUsername(users, u.user, username, now).users]

\* Routes.updatePassword
RoutesUpdatePassword(session, currentPassword, newPassword) ==
    LET u == getUser(session)
        r == updatePassword(users, u.user, currentPassword, newPassword, now)
    IN  IF u.res # "ok" THEN Untouched(session, u.res)
        ELSE [Untouched(session, r.res) EXCEPT !.users = r.users]

deleteUserUnchecked(session) ==
    [Untouched(ClearUser(session), "ok") EXCEPT
        !.users = IF HasUser(session) THEN delete(users, ObjectId(session.user)).users
                  ELSE <<>>]

\* Routes.deleteUser
deleteUser(session) ==
    LET u == getUser(session) IN
    IF u.res # "ok" THEN Untouched(session, u.res)
    ELSE [Untouched(end(session).session, "ok") EXCEPT
            !.users = delete(users, u.user).users]

logInThenCheck(session, username, password) ==
    LET u == authenticate(users, username, password) IN
    IF u.res # "ok" THEN Untouched(session, u.res)
    ELSE Untouched(SetUser(session, u.ret._id), isLoggedOut(session))

\* Routes.logIn
logIn(session, username, password) ==
    LET u == authenticate(users, username, password) IN
    IF u.res # "ok" THEN Untouched(session, u.res)
    ELSE Untouched(start(session, u.ret._id).session, start(session, u.ret._id).res)

\* Routes.logOut
logOut(session) == Untouched(end(session).session, end(session).res)

\* The session the requests carry.
AccessSessions == {"s1"}

\* The accounts the login routes are tried with.
AccountNames == {"alice", "bob"}

AccountPasswords == {"pw1", "pw2"}

\* The _id parameter of the bookmark routes: the first bookmark's id.
BookmarkIdStrings == {toHexString(15)}

\* The tags parameter of the tag routes.
BookmarkTags == {<<"x">>}

\* The name parameter of patchWebapp: absent or a new name.
PatchNames == {"", "renamed"}

\* The response to a route's outcome: the thrown error's HTTP_CODE, or 200.
RouteStatus(res) ==
    IF res = "ok" THEN ResultResponse(res).status
    ELSE ErrorResponse(NewFormattable(res, <<>>, <<>>)).status

\* The request handler, for the route called with session s and the
\* arguments arg, whose handler's outcome is o.
AccessDone(route, s, arg, o) ==
    /\ o.spawn => BagCardinality(floating) < MaxFloating
    /\ sessions' = [sessions EXCEPT ![s] = o.session]
    /\ users' = o.users
    /\ webapps' = o.webapps
    /\ tagDocs' = o.tagDocs
    /\ graphDocs' = o.graphDocs
    /\ nextId' = o.nextId
    /\ nPosts' = o.nPosts
    /\ floating' = IF o.spawn THEN floating (+) SetToBag({Spawned(ObjectId(arg._id))})
                   ELSE floating
    /\ lastRequest' =
          [route |-> route, arg |-> arg, before |-> sessions[s], res |-> o.res,
           status |-> RouteStatus(o.res),
           same |-> /\ o.session = sessions[s] /\ o.users = users
                    /\ o.webapps = webapps /\ o.tagDocs = tagDocs
                    /\ o.graphDocs = graphDocs /\ o.nPosts = nPosts]
    /\ UNCHANGED <<sessLog, now, tagLog, errorHandlers>>
    /\ UNCHANGED <<authVars, ctorVars, graphLast>>

\* The arguments of a bookmark route: its _id, and the owner of that bookmark
\* when the request arrives.
OnBookmark(_id) == [_id |-> _id, owner |-> getOwner(webapps, ObjectId(_id))]

NoArgs == [none |-> TRUE]

AccessAddWebapp(s) ==
    /\ nextId = 15
    /\ AccessDone("addWebapp", s, NoArgs,
                  Outcome(sessions[s], addWebapp(sessions[s], "name", "description", "url")))

AccessDeleteWebapp(s, _id) ==
    AccessDone("deleteWebapp", s, OnBookmark(_id), deleteWebapp(sessions[s], _id))

AccessPatchWebapp(s, _id, name) ==
    AccessDone("patchWebapp", s, OnBookmark(_id), patchWebapp(sessions[s], _id, name, "", ""))

AccessAddTagsToWebapp(s, _id, tags) ==
    AccessDone("addTagsToWebapp", s, OnBookmark(_id),
               Outcome(sessions[s], addTagsToWebapp(sessions[s], _id, tags)))

AccessDeleteTagsFromWebapp(s, _id, tags) ==
    AccessDone("deleteTagsFromWebapp", s, OnBookmark(_id),
               Outcome(sessions[s], deleteTagsFromWebapp(sessions[s], _id, tags)))

AccessViewTagsForWebapp(s, _id) ==
    AccessDone("viewTagsForWebapp", s, OnBookmark(_id), viewTagsForWebapp(sessions[s], _id))

AccessSessionReader(route, s) ==
    AccessDone(route, s, NoArgs, sessionReader(route, sessions[s]))

AccessPostOrFriendRoute(route, s) ==
    AccessDone(route, s, NoArgs, postOrFriendRoute(route, sessions[s]))

AccessUpdateUsername(s, username) ==
    AccessDone("updateUsername", s, NoArgs, RoutesUpdateUsername(sessions[s], username))

AccessUpdatePassword(s, currentPassword, newPassword) ==
    AccessDone("updatePassword", s, NoArgs,
               RoutesUpdatePassword(sessions[s], currentPassword, newPassword))

\* createUser, while the store has handed out fewer than MaxUserIds user ids.
AccessCreateUser(s, username, password) ==
    /\ nextId <= MaxUserIds
    /\ AccessDone("createUser", s, [username |-> username, password |-> password],
                  createUser(sessions[s], username, password))

AccessDeleteUser(s) ==
    AccessDone("deleteUser", s, NoArgs, deleteUser(sessions[s]))

AccessLogIn(s, username, password) ==
    AccessDone("logIn", s,
               [username |-> username, password |-> password,
                user |-> authenticate(users, username, password).ret],
               logIn(sessions[s], username, password))

AccessLogOut(s) ==
    AccessDone("logOut", s, NoArgs, logOut(sessions[s]))

-----------------------------------------------------------------------------
(* Routes.addTagsToWebapp and Routes.deleteTagsFromWebapp as the steps of a   *)
(* request: every await of a store operation is a point where the other       *)
(* request, or a deletion deleteTags started, may run.                        *)

\* The session both requests come with.
RaceSession == "s1"

\* The bookmark each request is about.
RaceBookmark == [r \in Requests |-> IF r = "r1" THEN toHexString(15) ELSE toHexString(17)]

TagRaceRoutes == {"addTagsToWebapp", "deleteTagsFromWebapp"}

\* The tags parameters of the two requests: "x", "y".
TagRaceStrings == {<<"x">>, <<"y">>}

\* A request that has not been made: the locals of the route and of the calls
\* it awaits.
TagRaceIdle ==
    [pc |-> "idle", route |-> "none", res |-> "none", user |-> 0, item |-> 0,
     tags |-> <<>>, i |-> 0, neighbors |-> <<>>, own |-> Null, connected |-> <<>>,
     nodes |-> <<>>, k |-> 0, sub |-> 0]

\* The request has returned or thrown res; its locals are gone.
TagRaceDone(p, res) ==
    [TagRaceIdle EXCEPT !.pc = "done", !.route = p.route, !.item = p.item,
                        !.tags = p.tags, !.res = res]

TagRaceFrame ==
    /\ UNCHANGED <<users, webapps, nextId, now, authLog, tagLog>>
    /\ UNCHANGED <<sessVars, ctorVars, graphLast, errorHandlers, lastRequest>>

\* The request arrives: Sessioning.getUser(session), and getOwner is awaited.
TagRaceCall(r, route, tags) ==
    /\ procs[r].pc = "idle"
    /\ LET u == getUser(sessions[RaceSession])
           p == [TagRaceIdle EXCEPT !.route = route,
                                    !.item = ObjectId(RaceBookmark[r]),
                                    !.tags = split(tags, ",")]
       IN  procs' = [procs EXCEPT ![r] =
              IF u.res # "ok" THEN TagRaceDone(p, u.res)
              ELSE [p EXCEPT !.pc = "owner", !.user = u.user]]
    /\ UNCHANGED <<tagDocs, graphDocs, floating, nPosts>>
    /\ TagRaceFrame

\* await Webapping.getOwner(new ObjectId(_id)), and the comparison with the user
TagRaceOwner(r) ==
    /\ procs[r].pc = "owner"
    /\ LET p == procs[r]
           owner == getOwner(webapps, p.item)
       IN  procs' = [procs EXCEPT ![r] =
              IF owner.res # "ok" THEN TagRaceDone(p, owner.res)
              ELSE IF owner.ret # toHexString(p.user) THEN TagRaceDone(p, "WrongUser")
              ELSE [p EXCEPT !.pc = "tagEnsure"]]
    /\ UNCHANGED <<tagDocs, graphDocs, floating, nPosts>>
    /\ TagRaceFrame

\* Where ensureCreated returns to: addTags, deleteTags or getMatchingItems.
AfterEnsure(p) ==
    IF p.pc \in {"matchEnsure", "matchCreate"} THEN [p EXCEPT !.pc = "matchOwn"]
    ELSE IF p.route = "addTagsToWebapp" THEN [p EXCEPT !.pc = "tagUpdate"]
    ELSE IF p.tags = <<>> THEN [p EXCEPT !.pc = "tagPull"]
    ELSE [p EXCEPT !.pc = "tagCheck", !.i = 1]

\* ensureCreated: await this.tags.readOne({ item })
TagRaceEnsure(r) ==
    /\ procs[r].pc \in {"tagEnsure", "matchEnsure"}
    /\ LET p == procs[r] IN
       procs' = [procs EXCEPT ![r] =
          IF readOne(tagDocs, [item |-> p.item]) # Null THEN AfterEnsure(p)
          ELSE [p EXCEPT !.pc = IF p.pc = "tagEnsure" THEN "tagCreate" ELSE "matchCreate"]]
    /\ UNCHANGED <<tagDocs, graphDocs, floating, nPosts>>
    /\ TagRaceFrame

\* ensureCreated: await this.create(item, [])
TagRaceCreate(r) ==
    /\ procs[r].pc \in {"tagCreate", "matchCreate"}
    /\ tagDocs' = createTags(tagDocs, procs[r].item, <<>>, now)
    /\ procs' = [procs EXCEPT ![r] = AfterEnsure(procs[r])]
    /\ UNCHANGED <<graphDocs, floating, nPosts>>
    /\ TagRaceFrame

\* addTags: await this.tags.collection.updateOne({ item }, { $addToSet: ... })
TagRaceAdd(r) ==
    /\ procs[r].pc = "tagUpdate"
    /\ tagDocs' = updateOneAddEachToSet(tagDocs, procs[r].item, procs[r].tags)
    /\ procs' = [procs EXCEPT ![r].pc = "byUser"]
    /\ UNCHANGED <<graphDocs, floating, nPosts>>
    /\ TagRaceFrame

\* deleteTags: the test of tags[i] in the loop over the tags
TagRaceCheck(r) ==
    /\ procs[r].pc = "tagCheck"
    /\ LET p == procs[r] IN
       procs' = [procs EXCEPT ![r] =
          IF ~HasTag(tagDocs, p.item, p.tags[p.i]) THEN TagRaceDone(p, "DoesNotExist")
          ELSE IF p.i < Len(p.tags) THEN [p EXCEPT !.i = p.i + 1]
          ELSE [p EXCEPT !.pc = "tagPull", !.i = 0]]
    /\ UNCHANGED <<tagDocs, graphDocs, floating, nPosts>>
    /\ TagRaceFrame

\* deleteTags: await this.tags.collection.updateOne({ item }, { $pull: ... })
TagRacePull(r) ==
    /\ procs[r].pc = "tagPull"
    /\ tagDocs' = updateOnePullIn(tagDocs, procs[r].item, procs[r].tags)
    /\ procs' = [procs EXCEPT ![r].pc = "tagEmpty"]
    /\ UNCHANGED <<graphDocs, floating, nPosts>>
    /\ TagRaceFrame

\* deleteTags: the test of the emptied tag set; this.delete(item) is started
\* and not awaited.
TagRaceEmpty(r) ==
    /\ procs[r].pc = "tagEmpty"
    /\ HasNoTags(tagDocs, procs[r].item) => BagCardinality(floating) < MaxFloating
    /\ floating' = IF HasNoTags(tagDocs, procs[r].item)
                   THEN floating (+) SetToBag({Spawned(procs[r].item)})
                   ELSE floating
    /\ procs' = [procs EXCEPT ![r].pc = "byUser"]
    /\ UNCHANGED <<tagDocs, graphDocs, nPosts>>
    /\ TagRaceFrame

\* const neighbors = await Webapping.getByUser(user)
TagRaceByUser(r) ==
    /\ procs[r].pc = "byUser"
    /\ procs' = [procs EXCEPT ![r].pc = "matchEnsure",
                              ![r].neighbors = Ids(getByUser(webapps, procs[r].user))]
    /\ UNCHANGED <<tagDocs, graphDocs, floating, nPosts>>
    /\ TagRaceFrame

\* getMatchingItems: const tags = await this.tags.readOne({ item })
TagRaceOwn(r) ==
    /\ procs[r].pc = "matchOwn"
    /\ LET p == procs[r]
           tags == readOne(tagDocs, [item |-> p.item])
       IN  procs' = [procs EXCEPT ![r] =
              IF tags = Null
              THEN [p EXCEPT !.pc = "nodes", !.neighbors = <<>>, !.connected = <<>>]
              ELSE [p EXCEPT !.pc = "matchMany", !.own = tags]]
    /\ UNCHANGED <<tagDocs, graphDocs, floating, nPosts>>
    /\ TagRaceFrame

\* getMatchingItems: const items = await this.tags.readMany(...), the filter,
\* and the route's matching.map((w) => w.item.toString())
TagRaceMany(r) ==
    /\ procs[r].pc = "matchMany"
    /\ LET p == procs[r]
           items == readManyItemIn(tagDocs, p.neighbors)
           matching == SelectSeq(items, LAMBDA other :
                          \E k \in 1..Len(other.tags) : Includes(p.own.tags, other.tags[k]))
       IN  procs' = [procs EXCEPT ![r] =
              [p EXCEPT !.pc = "nodes", !.neighbors = <<>>, !.own = Null,
                        !.connected = ItemStrings(matching)]]
    /\ UNCHANGED <<tagDocs, graphDocs, floating, nPosts>>
    /\ TagRaceFrame

\* The loop of updateEdgesForUserNode moves on from index k to the next node
\* that is not the item's own: the index of that node, past the end without one.
NextOther(nodes, k, item) ==
    IF \E j \in k..Len(nodes) : toHexString(nodes[j].item) # toHexString(item)
    THEN CHOOSE j \in k..Len(nodes) :
            /\ toHexString(nodes[j].item) # toHexString(item)
            /\ \A h \in k..(j - 1) : toHexString(nodes[h].item) = toHexString(item)
    ELSE Len(nodes) + 1

\* updateEdgesForUserNode: const nodes = await this.tags.readMany({ owner: user })
TagRaceNodes(r) ==
    /\ procs[r].pc = "nodes"
    /\ LET p == procs[r]
           nodes == readMany(graphDocs, [owner |-> p.user])
       IN  procs' = [procs EXCEPT ![r] =
              [p EXCEPT !.pc = "edges", !.nodes = nodes,
                        !.k = NextOther(nodes, 1, p.item), !.sub = 1]]
    /\ UNCHANGED <<tagDocs, graphDocs, floating, nPosts>>
    /\ TagRaceFrame

\* The sub-th updateOne of the four that addEdge(item, other), addEdge(other,
\* item) (or the two deleteEdge calls) await: the node written and the
\* neighbour added to it or pulled from it.
EdgeWrite(item, other, sub) ==
    IF sub \in {1, 4} THEN [at |-> item, x |-> other] ELSE [at |-> other, x |-> item]

\* updateEdgesForUserNode: one awaited updateOne of the loop body for nodes[k]
TagRaceEdge(r) ==
    /\ procs[r].pc = "edges"
    /\ procs[r].k <= Len(procs[r].nodes)
    /\ LET p == procs[r]
           w == EdgeWrite(p.item, p.nodes[p.k].item, p.sub)
       IN  /\ graphDocs' =
                IF Includes(p.connected, toHexString(p.nodes[p.k].item))
                THEN updateOneAddToSet(graphDocs, [item |-> w.at], "neighbors", w.x)
                ELSE updateOnePull(graphDocs, [item |-> w.at], "neighbors", w.x)
           /\ procs' = [procs EXCEPT ![r] =
                IF p.sub < 4 THEN [p EXCEPT !.sub = p.sub + 1]
                ELSE [p EXCEPT !.k = NextOther(p.nodes, p.k + 1, p.item), !.sub = 1]]
    /\ UNCHANGED <<tagDocs, floating, nPosts>>
    /\ TagRaceFrame

\* The loop is over: Posting.create(...) is called and the route returns.
TagRaceReturn(r) ==
    /\ procs[r].pc = "edges"
    /\ procs[r].k > Len(procs[r].nodes)
    /\ nPosts' = createPost(nPosts)
    /\ procs' = [procs EXCEPT ![r] = TagRaceDone(procs[r], "ok")]
    /\ UNCHANGED <<tagDocs, graphDocs, floating>>
    /\ TagRaceFrame

-----------------------------------------------------------------------------
(* Initial values of the parts a specification does not use. *)

SessInit ==
    /\ sessions = [s \in Sessions |-> EmptySession]
    /\ sessLog = [s \in Sessions |-> <<>>]

StoreInit ==
    /\ users = <<>>
    /\ webapps = <<>>
    /\ tagDocs = <<>>
    /\ graphDocs = <<>>
    /\ nextId = 1
    /\ now = 0

AuthInit ==
    /\ authLog = <<>>
    /\ procs = <<>>

CtorInit ==
    /\ collectionNames = {}
    /\ constructed = <<>>
    /\ ctorLast = "none"

GraphInit == graphLast = [op |-> "none"]

TagInit ==
    /\ floating = EmptyBag
    /\ tagLog = <<>>

RouteInit ==
    /\ nPosts = 0
    /\ errorHandlers = <<>>
    /\ lastRequest = [route |-> "none"]

-----------------------------------------------------------------------------
(* Sessioning: start and end called in any order on the session objects. *)

InitSession ==
    /\ SessInit /\ StoreInit /\ AuthInit /\ CtorInit /\ GraphInit /\ TagInit /\ RouteInit

NextSession ==
    \/ \E s \in Sessions, u \in SessionUserIds : SessStart(s, u)
    \/ \E s \in Sessions : SessEnd(s)

SpecSession == InitSession /\ [][NextSession]_vars

\* C1: start on a logged-in session fails with NotAllowed and leaves the stored
\* user unchanged; end on a logged-out (or never started) session fails with
\* Unauthenticated; start, end, start in that order on a logged-out session
\* all succeed and leave the session logged in as the user of the last start.
SessionStateMachine ==
    \A s \in Sessions :
        LET log == sessLog[s] IN
        /\ \A i \in 1..Len(log) :
            /\ (log[i].op = "start" /\ HasUser(log[i].before)) =>
                  (log[i].res = "NotAllowed" /\ log[i].after = log[i].before)
            /\ (log[i].op = "end" /\ ~HasUser(log[i].before)) =>
                  log[i].res = "Unauthenticated"
        /\ \A i \in 1..(Len(log) - 2) :
            ( /\ ~HasUser(log[i].before)
              /\ log[i].op = "start" /\ log[i + 1].op = "end" /\ log[i + 2].op = "start" ) =>
                /\ log[i].res = "ok" /\ log[i + 1].res = "ok" /\ log[i + 2].res = "ok"
                /\ HasUser(log[i + 2].after)
                /\ log[i + 2].after.user = toHexString(log[i + 2].user)
                /\ ObjectId(log[i + 2].after.user) = log[i + 2].user
        /\ (Len(log) > 0 => sessions[s] = log[Len(log)].after)
        /\ (Len(log) = 0 => ~HasUser(sessions[s]))

\* One session went start, end, start (as another user) and is logged in; the
\* other had end refused before any start, then a start refused while logged in.
SessionStateMachineWitness ==
    /\ Len(sessLog["s1"]) = 3
    /\ sessLog["s1"][1].op = "start" /\ sessLog["s1"][1].user = 7
    /\ sessLog["s1"][2].op = "end"
    /\ sessLog["s1"][3].op = "start" /\ sessLog["s1"][3].user = 26
    /\ sessions["s1"].user = <<"1", "a">>
    /\ Len(sessLog["s2"]) = 3
    /\ sessLog["s2"][1].op = "end" /\ sessLog["s2"][1].res = "Unauthenticated"
    /\ sessLog["s2"][2].op = "start" /\ sessLog["s2"][2].res = "ok"
    /\ sessLog["s2"][3].op = "start" /\ sessLog["s2"][3].res = "NotAllowed"
    /\ sessions["s2"].user = toHexString(sessLog["s2"][2].user)

-----------------------------------------------------------------------------
(* Authenticating: the operations called one at a time. *)

InitAuth ==
    /\ SessInit /\ StoreInit /\ AuthInit /\ CtorInit /\ GraphInit /\ TagInit /\ RouteInit

NextAuth ==
    \/ \E u \in Usernames, p \in Passwords : AuthCreate(u, p)
    \/ \E u \in Usernames, p \in Passwords : AuthAuthenticate(u, p)
    \/ \E id \in UserIds, u \in Usernames : AuthUpdateUsername(id, u)
    \/ \E id \in UserIds, p \in Passwords, q \in Passwords : AuthUpdatePassword(id, p, q)
    \/ \E id \in UserIds : AuthDelete(id)
    \/ \E id \in UserIds : AuthGetUserById(id)
    \/ \E u \in Usernames : AuthGetUserByUsername(u)
    \/ \E u \in Usernames : AuthGetUsers(u)
    \/ \E ids \in IdLists : AuthIdsToUsernames(ids)

SpecAuth == InitAuth /\ [][NextAuth]_vars

LastAuth == authLog[Len(authLog)]

\* C2: a create that stored a user, followed by authenticate with the same
\* username: with the same password it succeeds and returns the id of the
\* user create stored, with any other password it fails with NotAllowed.
CreateThenAuthenticate ==
    ( /\ Len(authLog) = 2
      /\ authLog[1].op = "create" /\ authLog[1].res = "ok"
      /\ authLog[2].op = "authenticate"
      /\ authLog[2].username = authLog[1].username ) =>
        /\ authLog[1].username # "" /\ authLog[1].password # ""
        /\ authLog[1].ret.username = authLog[1].username
        /\ authLog[2].password = authLog[1].password =>
              (authLog[2].res = "ok" /\ authLog[2].ret._id = authLog[1].ret._id)
        /\ authLog[2].password # authLog[1].password =>
              authLog[2].res = "NotAllowed"

\* create stored bob, then authenticate with bob's password succeeded.
CreateThenAuthenticateWitness ==
    /\ Len(authLog) = 2
    /\ authLog[1].op = "create" /\ authLog[1].res = "ok"
    /\ authLog[1].username = "bob" /\ authLog[1].password = "pw2"
    /\ authLog[2].op = "authenticate" /\ authLog[2].username = "bob"
    /\ authLog[2].password = "pw2" /\ authLog[2].res = "ok"
    /\ authLog[2].ret._id = 2
    /\ Len(users) = 2

NoTwoUsersShareAUsername ==
    \A i, j \in 1..Len(users) : users[i].username = users[j].username => i = j

\* C3 as stated: a create or updateUsername whose username is held fails with
\* NotAllowed and changes no record, and no two stored users share a username.
DuplicateUsernameNotAllowed ==
    /\ NoTwoUsersShareAUsername
    /\ ( /\ Len(authLog) > 0
         /\ LastAuth.op \in {"create", "updateUsername"}
         /\ LastAuth.held ) =>
            (LastAuth.res = "NotAllowed" /\ LastAuth.unchanged)

\* C3 (amended): a create or updateUsername whose username is held fails and
\* changes no record; it fails with NotAllowed, except that a create given an
\* empty username or password fails with BadValues; no two stored users share
\* a username.
DuplicateUsernameRejected ==
    /\ NoTwoUsersShareAUsername
    /\ ( /\ Len(authLog) > 0
         /\ LastAuth.op \in {"create", "updateUsername"}
         /\ LastAuth.held ) =>
            /\ LastAuth.unchanged
            /\ LastAuth.res =
                  IF /\ LastAuth.op = "create"
                     /\ (LastAuth.username = "" \/ LastAuth.password = "")
                  THEN "BadValues" ELSE "NotAllowed"

\* Two users are stored and an updateUsername to the other's name was refused.
DuplicateUsernameRejectedWitness ==
    /\ Len(users) = 2
    /\ Len(authLog) > 0
    /\ LastAuth.op = "updateUsername" /\ LastAuth.held
    /\ LastAuth.id = 2 /\ LastAuth.username = users[1].username
    /\ LastAuth.res = "NotAllowed"

\* The user records the last call returned, when it was one of the calls that
\* return user records.
ReturnedUsers ==
    IF Len(authLog) = 0 \/ LastAuth.res # "ok" THEN {}
    ELSE IF LastAuth.op \in {"create", "getUserById", "getUserByUsername"} THEN {LastAuth.ret}
    ELSE IF LastAuth.op = "getUsers" THEN Range(LastAuth.ret)
    ELSE {}

\* C18: no user record returned by create, getUserById, getUserByUsername or
\* getUsers has a password field.
NoPasswordReturned ==
    \A user \in ReturnedUsers : "password" \notin DOMAIN user

\* C19: idsToUsernames(ids) does not fail and returns a list as long as ids
\* whose i-th element is the username of the stored user with the i-th id, or
\* "DELETED_USER" when no user has it; it changes no record.
IdsToUsernamesTotal ==
    (Len(authLog) > 0 /\ LastAuth.op = "idsToUsernames") =>
        /\ LastAuth.res = "ok"
        /\ LastAuth.unchanged
        /\ Len(LastAuth.ret) = Len(LastAuth.ids)
        /\ \A i \in 1..Len(LastAuth.ids) :
            LastAuth.ret[i] =
                IF \E k \in 1..Len(users) : users[k]._id = LastAuth.ids[i]
                THEN users[CHOOSE k \in 1..Len(users) : users[k]._id = LastAuth.ids[i]].username
                ELSE "DELETED_USER"

\* idsToUsernames([2, 1, 2]) after user 1 was deleted returned the username
\* of user 2, "DELETED_USER", and the username of user 2 again.
IdsToUsernamesTotalWitness ==
    /\ Len(authLog) > 0
    /\ LastAuth.op = "idsToUsernames"
    /\ LastAuth.ids = <<2, 1, 2>>
    /\ Len(users) = 1
    /\ LastAuth.ret = <<users[1].username, "DELETED_USER", users[1].username>>

\* C20: updatePassword fails with NotFound when no user has the id and with
\* NotAllowed when the current password given is not the stored one, changing
\* no record; when it succeeds, authenticate with the user's username succeeds
\* with the new password and fails with NotAllowed with the old one, if
\* different.
UpdatePasswordChecked ==
    (Len(authLog) > 0 /\ LastAuth.op = "updatePassword") =>
        /\ ~LastAuth.stored.found => (LastAuth.res = "NotFound" /\ LastAuth.unchanged)
        /\ (LastAuth.stored.found /\ LastAuth.stored.password # LastAuth.current) =>
              (LastAuth.res = "NotAllowed" /\ LastAuth.unchanged)
        /\ (LastAuth.stored.found /\ LastAuth.stored.password = LastAuth.current) =>
              /\ LastAuth.res = "ok"
              /\ authenticate(users, LastAuth.username, LastAuth.password).res = "ok"
              /\ authenticate(users, LastAuth.username, LastAuth.password).ret._id = LastAuth.id
              /\ LastAuth.current # LastAuth.password =>
                    authenticate(users, LastAuth.username, LastAuth.current).res = "NotAllowed"
              /\ \A k \in 1..Len(users) :
                    users[k]._id = LastAuth.id => users[k].password = LastAuth.password

\* updatePassword(2, "pw1", "pw2") succeeded for the second of two users, who
\* both had the password pw1.
UpdatePasswordCheckedWitness ==
    /\ Len(authLog) > 0
    /\ LastAuth.op = "updatePassword"
    /\ LastAuth.res = "ok"
    /\ LastAuth.id = 2 /\ LastAuth.current = "pw1" /\ LastAuth.password = "pw2"
    /\ Len(users) = 2
    /\ users[1].password = "pw1"

\* C25: every stored user has a non-empty username, and a create or an
\* updateUsername given the empty username is rejected and stores nothing.
UsernamesNonEmpty ==
    /\ \A i \in 1..Len(users) : users[i].username # ""
    /\ (/\ Len(authLog) > 0
        /\ LastAuth.op \in {"create", "updateUsername"}
        /\ LastAuth.username = "") =>
            (LastAuth.res # "ok" /\ LastAuth.unchanged)

-----------------------------------------------------------------------------
(* Authenticating.create called by two requests whose store operations     *)
(* interleave.                                                              *)

InitAuthRace ==
    /\ SessInit /\ StoreInit /\ CtorInit /\ GraphInit /\ TagInit /\ RouteInit
    /\ authLog = <<>>
    /\ procs = [r \in Requests |-> Idle]

NextAuthRace ==
    \/ \E r \in Requests, u \in Usernames, p \in Passwords : RaceCall(r, u, p)
    \/ \E r \in Requests : RaceUnique(r)
    \/ \E r \in Requests : RaceInsert(r)
    \/ \E r \in Requests : RaceRead(r)

SpecAuthRace == InitAuthRace /\ [][NextAuthRace]_vars

\* The request has written its user.
Inserted(r) == procs[r].pc = "read" \/ (procs[r].pc = "done" /\ procs[r].res = "ok")

\* C4: two interleaved creates for one username that both pass the uniqueness
\* read both write, leaving two stored users with that username; and two
\* stored users share a username only when both requests passed the
\* uniqueness read before either wrote.
RaceAdmitsDuplicateUsernames ==
    /\ \A r, q \in Requests :
        (r # q /\ Inserted(r) /\ Inserted(q) /\ procs[r].username = procs[q].username) =>
            /\ Cardinality({i \in 1..Len(users) : users[i].username = procs[r].username}) = 2
            /\ procs[r].seen = 0 /\ procs[q].seen = 0
    /\ ~NoTwoUsersShareAUsername =>
            \A r \in Requests : Inserted(r) /\ procs[r].seen = 0

\* Both creates returned successfully and two stored users are named alice.
RaceAdmitsDuplicateUsernamesWitness ==
    /\ \A r \in Requests : procs[r].pc = "done" /\ procs[r].res = "ok"
    /\ Len(users) = 2
    /\ users[1].username = "alice" /\ users[2].username = "alice"
    /\ users[1]._id # users[2]._id

-----------------------------------------------------------------------------
(* DocCollection: stores constructed over collection names in any order. *)

InitCtor ==
    /\ SessInit /\ StoreInit /\ AuthInit /\ CtorInit /\ GraphInit /\ TagInit /\ RouteInit

NextCtor == \E name \in CollectionNameSet : Construct(name)

SpecCtor == InitCtor /\ [][NextCtor]_vars

\* C5: at most one store instance is bound to each collection name (a second
\* construction over a name throws and binds nothing).
OneStorePerCollectionName ==
    \A name \in CollectionNameSet :
        Cardinality({i \in 1..Len(constructed) : constructed[i] = name}) <= 1

-----------------------------------------------------------------------------
(* Graphing: nodes added with no neighbours, then edges added, deleted and   *)
(* recomputed between items that have nodes, one call at a time.            *)

InitGraph ==
    /\ SessInit /\ AuthInit /\ CtorInit /\ GraphInit /\ TagInit /\ RouteInit
    /\ users = <<>> /\ webapps = <<>> /\ tagDocs = <<>> /\ graphDocs = <<>>
    /\ nextId = 15
    /\ now = 0

NextGraph ==
    \/ \E o \in GraphOwners : GraphAddNode(o)
    \/ \E a \in GraphItems, b \in GraphItems : GraphAddEdge(a, b)
    \/ \E a \in GraphItems, b \in GraphItems : GraphDeleteEdge(a, b)
    \/ \E u \in GraphOwners, a \in GraphItems, c \in ConnectedLists : GraphUpdateEdges(u, a, c)

SpecGraph == InitGraph /\ [][NextGraph]_vars

\* C6: whenever node A's neighbours contain B, B has a node whose neighbours
\* contain A.
GraphSymmetry ==
    \A i \in 1..Len(graphDocs) :
        \A b \in Range(graphDocs[i].neighbors) :
            /\ HasNode(graphDocs, b)
            /\ Includes(Neighbors(graphDocs, b), graphDocs[i].item)

\* Three nodes; the first and the last are neighbours of each other, the
\* second has none, after an edge was deleted.
GraphSymmetryWitness ==
    /\ Len(graphDocs) = 3
    /\ graphLast.op = "deleteEdge"
    /\ graphDocs[1].neighbors = <<graphDocs[3].item>>
    /\ graphDocs[3].neighbors = <<graphDocs[1].item>>
    /\ graphDocs[2].neighbors = <<>>

\* C7: after updateEdgesForUserNode(user, item, connected), for every other
\* node N of user: N's item and item are in each other's neighbours when N's
\* item id is in connected, and neither is in the other's otherwise.
UpdateEdgesRecomputes ==
    graphLast.op = "updateEdgesForUserNode" =>
        \A i \in 1..Len(graphDocs) :
            LET n == graphDocs[i] IN
            (n.owner = graphLast.user /\ n.item # graphLast.item) =>
                IF Includes(graphLast.connected, toHexString(n.item))
                THEN /\ Includes(n.neighbors, graphLast.item)
                     /\ Includes(Neighbors(graphDocs, graphLast.item), n.item)
                ELSE /\ ~Includes(n.neighbors, graphLast.item)
                     /\ ~Includes(Neighbors(graphDocs, graphLast.item), n.item)

\* updateEdgesForUserNode on the first node of an owner with three nodes
\* connected it to the second and left it apart from the third.
UpdateEdgesRecomputesWitness ==
    /\ graphLast.op = "updateEdgesForUserNode"
    /\ Len(graphDocs) = 3
    /\ \A i \in 1..3 : graphDocs[i].owner = graphLast.user
    /\ graphLast.item = graphDocs[1].item
    /\ graphLast.connected = <<toHexString(graphDocs[2].item)>>
    /\ graphDocs[1].neighbors = <<graphDocs[2].item>>
    /\ graphDocs[2].neighbors = <<graphDocs[3].item, graphDocs[1].item>>
    /\ graphDocs[3].neighbors = <<graphDocs[2].item>>

-----------------------------------------------------------------------------
(* Tagging: the operations called one at a time; the deletions deleteTags     *)
(* starts without awaiting them take their steps between and after the calls. *)

InitTag ==
    /\ SessInit /\ StoreInit /\ AuthInit /\ CtorInit /\ GraphInit /\ TagInit /\ RouteInit

NextTag ==
    \/ \E i \in TagItems, ts \in TagLists : TagAddTags(i, ts)
    \/ \E i \in TagItems, ts \in TagLists : TagDeleteTags(i, ts)
    \/ \E i \in TagItems : TagGetTagsForId(i)
    \/ \E e \in BagToSet(floating) : FloatEnsure(e)
    \/ \E e \in BagToSet(floating) : FloatCreate(e)
    \/ \E e \in BagToSet(floating) : FloatDelete(e)

SpecTag == InitTag /\ [][NextTag]_vars

LastTag == tagLog[Len(tagLog)]

\* Each element occurs once.
NoRepeats(arr) == \A i, j \in 1..Len(arr) : arr[i] = arr[j] => i = j

\* C9: from any tags the item has, addTags(item, tags) a second time leaves
\* the store as the first call left it, with every tag of tags present in the
\* item's tag set exactly once; and a repeated addTags call changed nothing.
AddTagsIdempotent ==
    /\ \A item \in TagItems, tags \in TagLists :
        LET once == addTags(tagDocs, item, tags, now).docs
            twice == addTags(once, item, tags, now).docs
        IN  /\ twice = once
            /\ NoRepeats(TagsOf(once, item))
            /\ \A k \in 1..Len(tags) : Includes(TagsOf(once, item), tags[k])
            /\ Range(TagsOf(once, item)) = Range(TagsOf(tagDocs, item)) \cup Range(tags)
    /\ \A i \in 1..Len(tagDocs) : NoRepeats(tagDocs[i].tags)
    /\ ( /\ Len(tagLog) = 2
         /\ ~tagLog[1].disturbed /\ ~tagLog[2].disturbed ) =>
            /\ TagsOf(tagDocs, tagLog[2].item) = tagLog[2].before
            /\ \A k \in 1..Len(tagLog[2].tags) : Includes(tagLog[2].before, tagLog[2].tags[k])

\* addTags(item, [x, x]) was called twice in a row on an item tagged y: the
\* item is tagged y and x, each once.
AddTagsIdempotentWitness ==
    /\ Len(tagLog) = 2
    /\ ~tagLog[1].disturbed /\ ~tagLog[2].disturbed
    /\ tagLog[2].tags = <<TagX, TagX>>
    /\ tagLog[1].before = <<TagY>>
    /\ TagsOf(tagDocs, tagLog[2].item) = <<TagY, TagX>>

\* The last call was deleteTags(item, [x]) on an item with no tags.
DeleteAbsentTagCalled ==
    /\ Len(tagLog) > 0
    /\ LastTag.op = "deleteTags"
    /\ LastTag.tags = <<TagX>>
    /\ LastTag.before = <<>>

\* C10 as stated: deleteTags(item, [x]) on an item with no tags returns
\* normally and getTagsForId(item) is empty afterwards.
DeleteAbsentTagIsNoError ==
    DeleteAbsentTagCalled =>
        /\ LastTag.res = "ok"
        /\ getTagsForId(tagDocs, LastTag.item, now).ret = <<>>

\* C10 (amended): deleteTags(item, [x]) on an item with no tags fails with
\* DoesNotExist and getTagsForId(item) is empty afterwards.
DeleteAbsentTagDoesNotExist ==
    DeleteAbsentTagCalled =>
        /\ LastTag.res = "DoesNotExist"
        /\ getTagsForId(tagDocs, LastTag.item, now).ret = <<>>

\* deleteTags(item, [x]) was refused on an item with no tags; the item's Tag
\* Record is stored, empty.
DeleteAbsentTagDoesNotExistWitness ==
    /\ DeleteAbsentTagCalled
    /\ LastTag.res = "DoesNotExist"
    /\ Len(tagDocs) = 1
    /\ tagDocs[1].item = LastTag.item /\ tagDocs[1].tags = <<>>

\* C11: there is at most one Tag Record per item.
OneTagRecordPerItem ==
    \A i, j \in 1..Len(tagDocs) : tagDocs[i].item = tagDocs[j].item => i = j

\* C28: a deleteTags that fails with DoesNotExist leaves the tag store as it
\* was when the call began: no tag removed, no Tag Record created, changed
\* or deleted.
FailedDeleteTagsLeavesStore ==
    ( /\ Len(tagLog) > 0
      /\ LastTag.op = "deleteTags" /\ LastTag.res = "DoesNotExist"
      /\ ~LastTag.disturbed ) =>
        tagDocs = LastTag.docs

\* The deletions started without await take their steps.
FloatsRun ==
    /\ WF_vars(\E e \in BagToSet(floating) : FloatEnsure(e))
    /\ WF_vars(\E e \in BagToSet(floating) : FloatCreate(e))
    /\ WF_vars(\E e \in BagToSet(floating) : FloatDelete(e))

\* The Tagging operations with the event loop running every deletion that
\* deleteTags started, once its store operation has completed.
SpecTagLive == SpecTag /\ FloatsRun

\* The last Tagging call was a deleteTags that removed the item's last tag.
Emptied ==
    /\ Len(tagLog) > 0
    /\ LastTag.op = "deleteTags" /\ LastTag.res = "ok"
    /\ LastTag.before # <<>>
    /\ Range(LastTag.before) \subseteq Range(LastTag.tags)

\* C29: when a deleteTags call has removed the last tag of an item and no
\* Tagging call follows it, the item's Tag Record is eventually deleted and
\* stays absent.
EmptiedRecordIsDeleted ==
    <>[]Emptied => <>[](\A i \in TagItems : readOne(tagDocs, [item |-> i]) = Null)

\* deleteTags removed the item's tags x and y, the deletion it started has
\* run, and no Tag Record is left.
EmptiedRecordIsDeletedWitness ==
    /\ Emptied
    /\ Len(LastTag.before) = 2
    /\ LastTag.disturbed
    /\ floating = EmptyBag
    /\ tagDocs = <<>>

\* C30: after addTags(item, tags) has returned success, and until a later
\* Tagging call, every tag of tags is among the item's tags.
AddedTagsStay ==
    ( /\ Len(tagLog) > 0
      /\ LastTag.op = "addTags" /\ LastTag.res = "ok" ) =>
        \A k \in 1..Len(LastTag.tags) : HasTag(tagDocs, LastTag.item, LastTag.tags[k])

-----------------------------------------------------------------------------
(* The bookmark and tag routes, run one at a time to completion by two        *)
(* logged-in users; the deletions deleteTags starts without awaiting them     *)
(* take their steps after the route that started them has completed.          *)

InitRoutes ==
    /\ sessions = [s \in Sessions |->
                      start(EmptySession, IF s = "s1" THEN 7 ELSE 26).session]
    /\ sessLog = [s \in Sessions |-> <<>>]
    /\ users = <<>> /\ webapps = <<>> /\ tagDocs = <<>> /\ graphDocs = <<>>
    /\ nextId = 15 /\ now = 0
    /\ AuthInit /\ CtorInit /\ GraphInit /\ TagInit /\ RouteInit

NextRoutes ==
    \/ \E s \in Sessions : RouteAddWebapp(s)
    \/ \E s \in Sessions, i \in WebappIdStrings, ts \in TagStrings :
          RouteAddTagsToWebapp(s, i, ts)
    \/ \E s \in Sessions, i \in WebappIdStrings, ts \in TagStrings :
          RouteDeleteTagsFromWebapp(s, i, ts)
    \/ \E e \in BagToSet(floating) : FloatEnsure(e)
    \/ \E e \in BagToSet(floating) : FloatCreate(e)
    \/ \E e \in BagToSet(floating) : FloatDelete(e)

SpecRoutes == InitRoutes /\ [][NextRoutes]_vars

\* The two items' tag sets share a tag.
SharesTag(a, b) == Range(TagsOf(tagDocs, a)) \cap Range(TagsOf(tagDocs, b)) # {}

\* Each of the two items' nodes lists the other as neighbour.
Adjacent(a, b) ==
    /\ Includes(Neighbors(graphDocs, a), b)
    /\ Includes(Neighbors(graphDocs, b), a)

\* C8: any two bookmarks of the same user that both have graph nodes are
\* mutually adjacent if and only if their tag sets share at least one tag.
AdjacentIffSharedTag ==
    \A i, j \in 1..Len(webapps) :
        ( /\ i # j
          /\ webapps[i].user = webapps[j].user
          /\ HasNode(graphDocs, webapps[i]._id)
          /\ HasNode(graphDocs, webapps[j]._id) ) =>
            (Adjacent(webapps[i]._id, webapps[j]._id)
                <=> SharesTag(webapps[i]._id, webapps[j]._id))

-----------------------------------------------------------------------------
(* The Tagging queries, on the stores addTags leaves for three items.          *)

InitTagQuery ==
    /\ SessInit /\ AuthInit /\ CtorInit /\ GraphInit /\ RouteInit
    /\ users = <<>> /\ webapps = <<>> /\ graphDocs = <<>>
    /\ nextId = 1 /\ now = 0
    /\ floating = EmptyBag
    /\ tagLog = <<>>
    /\ \E order \in ItemOrders, given \in [QueryItems -> QueryTagLists] :
          tagDocs = BuildTags(<<>>, order, given)

NextTagQuery ==
    \/ \E i \in QueryItems, others \in ItemLists : QueryGetMatchingItems(i, others)
    \/ \E items \in ItemLists, limit \in Limits : QueryTopTagsForItems(items, limit)

SpecTagQuery == InitTagQuery /\ [][NextTagQuery]_vars

\* The last query call.
LastQuery == tagLog[1]

\* The Tag Records for the item.
RecordsOf(item) == SelectSeq(tagDocs, LAMBDA d : d.item = item)

\* The two tag lists have a tag in common.
Share(ts, us) == Range(ts) \cap Range(us) # {}

\* C12: getMatchingItems(item, others) returns exactly the Tag Records of the
\* members of others whose tags share a tag with item's, each once; nothing
\* when item has no tags.
MatchingItemsExact ==
    (Len(tagLog) = 1 /\ LastQuery.op = "getMatchingItems") =>
        LET ret == LastQuery.ret
            mine == TagsOf(tagDocs, LastQuery.item)
        IN  /\ \A k \in 1..Len(ret) :
                /\ Includes(tagDocs, ret[k])
                /\ Includes(LastQuery.items, ret[k].item)
                /\ Share(ret[k].tags, mine)
            /\ \A o \in Range(LastQuery.items) :
                Share(TagsOf(tagDocs, o), mine) => Includes(ret, RecordsOf(o)[1])
            /\ NoRepeats(ret)
            /\ mine = <<>> => ret = <<>>

\* getMatchingItems(1, [1, 2]) with item 1 tagged a, b, item 2 tagged b, c and
\* item 3 tagged b returned the records of items 1 and 2 and not that of item 3.
MatchingItemsExactWitness ==
    /\ Len(tagLog) = 1
    /\ LastQuery.op = "getMatchingItems"
    /\ LastQuery.item = 1 /\ LastQuery.items = <<1, 2>>
    /\ TagsOf(tagDocs, 1) = <<TagA, TagB>>
    /\ TagsOf(tagDocs, 2) = <<TagB, TagC>>
    /\ TagsOf(tagDocs, 3) = <<TagB>>
    /\ {LastQuery.ret[k].item : k \in 1..Len(LastQuery.ret)} = {1, 2}

\* The number of the items whose tags contain the tag.
TagCount(items, tag) ==
    Cardinality({i \in Range(items) : Includes(TagsOf(tagDocs, i), tag)})

\* The tags of the items.
TagsAmong(items) == UNION {Range(TagsOf(tagDocs, i)) : i \in Range(items)}

\* topTagsForItems was called on items tagged {a,b}, {b,c}, {b} with limit 2.
TopTagsExample ==
    /\ LastQuery.items = <<1, 2, 3>> /\ LastQuery.limit = 2
    /\ Range(TagsOf(tagDocs, 1)) = {TagA, TagB}
    /\ Range(TagsOf(tagDocs, 2)) = {TagB, TagC}
    /\ Range(TagsOf(tagDocs, 3)) = {TagB}

-----------------------------------------------------------------------------
(* The dispatcher: requests for the routes getUser (with its validator) and   *)
(* createUser, and for routes whose handlers throw, with the error handlers   *)
(* registered in any order.                                                   *)

InitRouter ==
    /\ sessions = [s \in Sessions |->
                      IF s = "s1" THEN EmptySession ELSE start(EmptySession, 7).session]
    /\ sessLog = [s \in Sessions |-> <<>>]
    /\ StoreInit /\ AuthInit /\ CtorInit /\ GraphInit /\ TagInit /\ RouteInit

NextRouter ==
    \/ \E etype \in HandledTypes, handler \in Handlers : RouterRegisterError(etype, handler)
    \/ \E inPath, inQuery \in RequestUsernames : RouterGetUser(inPath, inQuery)
    \/ \E s \in Sessions, username \in RequestUsernames :
          RouterCreateUser(s, username, StringValue("pw1"))
    \/ \E value \in ThrownValues : RouterThrow(value)

SpecRouter == InitRouter /\ [][NextRouter]_vars

\* The last request was for a route with a validator, and its arguments did
\* not pass it.
ValidationFailed == lastRequest.route # "none" /\ lastRequest.validated = "failed"

\* C14: when the arguments of a route with a validator fail validation, the
\* response is status 400 with the message "Bad Request: validation failed",
\* the handler is not invoked and the store is as it was.
ValidationFailureIs400 ==
    ValidationFailed =>
        /\ lastRequest.response.status = 400
        /\ lastRequest.response.body = [msg |-> <<"Bad Request: validation failed">>]
        /\ ~lastRequest.invoked
        /\ lastRequest.unchanged

\* GET /users/:username with no username to bind (an empty one binds as
\* undefined) was answered 400 while a user is stored.
ValidationFailureIs400Witness ==
    /\ ValidationFailed
    /\ lastRequest.route = "getUser"
    /\ lastRequest.args.username = Undefined
    /\ Len(users) > 0
    /\ lastRequest.response.status = 400

\* The handler of the last request threw, and no registered handler took the
\* error.
ThrewUnhandled ==
    /\ lastRequest.route # "none"
    /\ lastRequest.thrown # Null
    /\ lastRequest.handler = "none"

\* C15: when a handler throws a failure of one of the six kinds and no
\* registered handler rewrites it, the status of the response is that of the
\* kind, whatever the format and the arguments, and the message is the
\* failure's.
StatusByKindAlone ==
    (ThrewUnhandled /\ lastRequest.thrown.class \in TaxonomyKinds) =>
        /\ lastRequest.response.status =
              CASE lastRequest.thrown.class = "BadValues" -> 400
                [] lastRequest.thrown.class = "Unauthenticated" -> 401
                [] lastRequest.thrown.class = "NotAllowed" -> 403
                [] lastRequest.thrown.class = "NotFound" -> 404
                [] lastRequest.thrown.class = "WrongUser" -> 409
                [] lastRequest.thrown.class = "DoesNotExist" -> 410
        /\ lastRequest.response.body = [msg |-> lastRequest.thrown.message]

\* A handler threw WrongUser with a two-placeholder format and one argument,
\* with a handler registered for another kind: the response is 409.
StatusByKindAloneWitness ==
    /\ ThrewUnhandled
    /\ lastRequest.thrown.class = "WrongUser"
    /\ lastRequest.thrown.message = <<"bob", " is not the author of post ", "{1}", "!">>
    /\ Len(errorHandlers) = 1
    /\ lastRequest.response.status = 409

\* C16 as stated: when a handler throws an error that carries no status code,
\* the response has status 500 and a message that contains none of the thrown
\* error's message.
UnknownErrorHidden ==
    (ThrewUnhandled /\ "HTTP_CODE" \notin DOMAIN lastRequest.thrown) =>
        /\ lastRequest.response.status = 500
        /\ "message" \in DOMAIN lastRequest.thrown =>
              Range(lastRequest.response.body.msg) \cap Range(lastRequest.thrown.message) = {}

\* C17 as stated: formatWith on a failure of one of the six kinds returns a
\* failure that is an instance of the same kind, with the same status code and
\* the message of the same format with the new arguments.
FormatWithKeepsKind ==
    ( /\ lastRequest.route # "none"
      /\ lastRequest.thrown # Null
      /\ lastRequest.handler = "formatWith"
      /\ lastRequest.thrown.class \in TaxonomyKinds ) =>
        /\ InstanceOf(lastRequest.error, lastRequest.thrown.class)
        /\ lastRequest.error.HTTP_CODE = lastRequest.thrown.HTTP_CODE
        /\ lastRequest.error.message = Render(lastRequest.thrown.format, HandlerArgs)

-----------------------------------------------------------------------------
(* The routes called with two sessions, both logged out at first, by two    *)
(* registered users; every route runs to completion, and the deletions      *)
(* deleteTags starts without awaiting them take their steps between routes. *)

InitAccess ==
    /\ SessInit
    /\ users = create(create(<<>>, "alice", "pw1", 1, 0).users, "bob", "pw2", 2, 0).users
    /\ webapps = <<>> /\ tagDocs = <<>> /\ graphDocs = <<>>
    /\ nextId = 15 /\ now = 0
    /\ AuthInit /\ CtorInit /\ GraphInit /\ TagInit /\ RouteInit

NextAccess ==
    \/ \E s \in AccessSessions, u \in AccountNames, p \in AccountPasswords : AccessLogIn(s, u, p)
    \/ \E s \in AccessSessions : AccessLogOut(s)
    \/ \E s \in AccessSessions : AccessAddWebapp(s)
    \/ \E s \in AccessSessions, i \in BookmarkIdStrings : AccessDeleteWebapp(s, i)
    \/ \E s \in AccessSessions, i \in BookmarkIdStrings, n \in PatchNames : AccessPatchWebapp(s, i, n)
    \/ \E s \in AccessSessions, i \in BookmarkIdStrings, ts \in BookmarkTags :
          AccessAddTagsToWebapp(s, i, ts)
    \/ \E s \in AccessSessions, i \in BookmarkIdStrings, ts \in BookmarkTags :
          AccessDeleteTagsFromWebapp(s, i, ts)
    \/ \E s \in AccessSessions, i \in BookmarkIdStrings : AccessViewTagsForWebapp(s, i)
    \/ \E s \in AccessSessions, r \in SessionReaders : AccessSessionReader(r, s)
    \/ \E s \in AccessSessions, r \in PostAndFriendRoutes : AccessPostOrFriendRoute(r, s)
    \/ \E s \in AccessSessions : AccessUpdateUsername(s, "bob")
    \/ \E s \in AccessSessions : AccessUpdatePassword(s, "pw1", "pw2")
    \/ \E s \in AccessSessions : AccessDeleteUser(s)
    \/ \E e \in BagToSet(floating) : FloatEnsure(e)
    \/ \E e \in BagToSet(floating) : FloatCreate(e)
    \/ \E e \in BagToSet(floating) : FloatDelete(e)

SpecAccess == InitAccess /\ [][NextAccess]_vars

\* The last request was this route, answered as a success.
Succeeded(route) ==
    /\ lastRequest.route = route
    /\ lastRequest.res = "ok" /\ lastRequest.status = 200

\* Some document of the collection has the value v in the field f.
Holds(coll, f, v) == \E i \in 1..Len(coll) : coll[i][f] = v

\* C21: after the deleteWebapp route has completed successfully for a
\* bookmark (and no deletion started earlier is still pending), no Bookmark,
\* no Graph Node and no Tag Record of that bookmark's id remains.
DeletedBookmarkLeavesNothing ==
    (Succeeded("deleteWebapp") /\ floating = EmptyBag) =>
        LET id == ObjectId(lastRequest.arg._id) IN
        /\ ~Holds(webapps, "_id", id)
        /\ ~Holds(graphDocs, "item", id)
        /\ ~Holds(tagDocs, "item", id)

\* The routes that act on a bookmark only for its owner.
OwnerRoutes == {"deleteWebapp", "patchWebapp", "addTagsToWebapp", "deleteTagsFromWebapp"}

\* The last request was for an existing bookmark, by a logged-in user who
\* does not own it.
ByNonOwner ==
    /\ lastRequest.route \in OwnerRoutes
    /\ HasUser(lastRequest.before)
    /\ lastRequest.arg.owner.res = "ok"
    /\ lastRequest.arg.owner.ret # lastRequest.before.user

\* C22: deleteWebapp, patchWebapp, addTagsToWebapp and deleteTagsFromWebapp,
\* called by a logged-in user who is not the bookmark's owner, fail with
\* WrongUser (status 409) and leave the bookmark, tag, graph and post stores
\* as they were.
NonOwnerIsRefused ==
    ByNonOwner =>
        /\ lastRequest.res = "WrongUser"
        /\ lastRequest.status = 409
        /\ lastRequest.same

\* All four routes have been refused to a non-owner; here deleteTagsFromWebapp,
\* for a bookmark that has a tag and a graph node.
NonOwnerIsRefusedWitness ==
    /\ ByNonOwner
    /\ lastRequest.route = "deleteTagsFromWebapp"
    /\ lastRequest.status = 409
    /\ Holds(tagDocs, "tags", <<TagX>>)
    /\ Holds(graphDocs, "item", ObjectId(lastRequest.arg._id))

\* The routes that obtain the acting user from the session, and logOut.
SessionRoutes ==
    {"addWebapp", "deleteWebapp", "patchWebapp", "addTagsToWebapp", "deleteTagsFromWebapp",
     "viewTagsForWebapp", "updateUsername", "updatePassword", "deleteUser", "logOut"}
        \cup SessionReaders \cup PostAndFriendRoutes

\* C23: every route that obtains the acting user from the session, and
\* logOut, called with a logged-out session fails with Unauthenticated
\* (status 401) and changes no stored document and not the session.
LoggedOutIsUnauthenticated ==
    (lastRequest.route \in SessionRoutes /\ ~HasUser(lastRequest.before)) =>
        /\ lastRequest.res = "Unauthenticated"
        /\ lastRequest.status = 401
        /\ lastRequest.same
        /\ ~HasUser(sessions["s1"])

\* deleteUser was called with a session logged out by logOut, with a bookmark,
\* its node and its tags stored.
LoggedOutIsUnauthenticatedWitness ==
    /\ lastRequest.route = "deleteUser"
    /\ ~HasUser(lastRequest.before)
    /\ lastRequest.status = 401
    /\ Len(users) = 2 /\ Len(webapps) = 1 /\ Len(tagDocs) = 1 /\ Len(graphDocs) = 1

\* C24: logIn changes the session only when it succeeds: with credentials
\* no user has, it is rejected (NotAllowed) and the session is as before;
\* with a user's credentials and a logged-out session it succeeds and the
\* session's user is that user's id; with a user's credentials and a
\* logged-in session it is rejected (NotAllowed) and the session is as before.
LogInBindsOrLeaves ==
    lastRequest.route = "logIn" =>
        LET a == lastRequest.arg
            known == \E i \in 1..Len(users) :
                        /\ users[i].username = a.username
                        /\ users[i].password = a.password
        IN  /\ lastRequest.same <=> lastRequest.res # "ok"
            /\ lastRequest.res # "ok" => sessions["s1"] = lastRequest.before
            /\ ~known => (lastRequest.res = "NotAllowed" /\ lastRequest.status = 403)
            /\ (known /\ ~HasUser(lastRequest.before)) =>
                  /\ lastRequest.res = "ok"
                  /\ HasUser(sessions["s1"])
                  /\ sessions["s1"].user = toHexString(a.user._id)
                  /\ \E i \in 1..Len(users) :
                        /\ users[i]._id = ObjectId(sessions["s1"].user)
                        /\ users[i].username = a.username
            /\ (known /\ HasUser(lastRequest.before)) =>
                  /\ lastRequest.res = "NotAllowed"
                  /\ lastRequest.status = 403
                  /\ sessions["s1"].user = lastRequest.before.user

\* bob logged in on the session alice is logged in on, and was rejected.
LogInBindsOrLeavesWitness ==
    /\ lastRequest.route = "logIn"
    /\ lastRequest.arg.username = "bob" /\ lastRequest.arg.password = "pw2"
    /\ lastRequest.arg.user # Null
    /\ HasUser(lastRequest.before)
    /\ lastRequest.before.user = toHexString(1)
    /\ lastRequest.res = "NotAllowed"

-----------------------------------------------------------------------------
(* popOne called by two requests whose store operations interleave. *)

InitPop ==
    /\ SessInit /\ CtorInit /\ GraphInit /\ TagInit /\ RouteInit
    /\ users \in PopStores
    /\ webapps = <<>> /\ tagDocs = <<>> /\ graphDocs = <<>>
    /\ nextId = 3 /\ now = 0
    /\ authLog = <<>>
    /\ procs = [r \in Requests |-> Idle]

NextPop ==
    \/ \E r \in Requests, f \in PopFilters : PopCall(r, f)
    \/ \E r \in Requests : PopRead(r)
    \/ \E r \in Requests : PopDelete(r)

SpecPop == InitPop /\ [][NextPop]_vars

\* C26: of two popOne calls, at most one returns a given document: when both
\* have returned a document, they returned different documents.
PopOneIsAtomic ==
    \A r, q \in Requests :
        ( /\ r # q
          /\ procs[r].pc = "done" /\ procs[r].ret # Null
          /\ procs[q].pc = "done" /\ procs[q].ret # Null ) =>
            procs[r].ret._id # procs[q].ret._id

-----------------------------------------------------------------------------
(* A DocCollection written by createOne, createMany, replaceOne and         *)
(* partialUpdateOne in any order while time passes.                         *)

InitStore ==
    /\ SessInit /\ StoreInit /\ AuthInit /\ CtorInit /\ GraphInit /\ TagInit /\ RouteInit

NextStore ==
    \/ StoreTick
    \/ \E item \in StoreItems : StoreCreateOne(item)
    \/ \E a, b \in StoreItems : StoreCreateMany(<<a, b>>)
    \/ \E f \in StoreFilters, item \in StoreItems : StoreReplaceOne(f, item)
    \/ \E f \in StoreFilters, u \in StoreItems : StorePartialUpdateOne(f, u)

SpecStore == InitStore /\ [][NextStore]_vars

\* The document has both timestamps, the creation one not the later.
Stamped(doc) ==
    /\ "dateCreated" \in DOMAIN doc
    /\ "dateUpdated" \in DOMAIN doc
    /\ doc.dateCreated <= doc.dateUpdated

\* C27: every stored document has a creation and an update timestamp with
\* creation <= update, and a document's creation timestamp is the time of
\* its insertion and never changes.
TimestampsKept ==
    /\ [](\A i \in 1..Len(webapps) : Stamped(webapps[i]))
    /\ [][\A i \in 1..Len(webapps') :
            IF \E j \in 1..Len(webapps) : webapps[j]._id = webapps'[i]._id
            THEN \A j \in 1..Len(webapps) :
                    webapps[j]._id = webapps'[i]._id =>
                        /\ "dateCreated" \in DOMAIN webapps'[i]
                        /\ "dateCreated" \in DOMAIN webapps[j]
                        /\ webapps'[i].dateCreated = webapps[j].dateCreated
            ELSE /\ "dateCreated" \in DOMAIN webapps'[i]
                 /\ webapps'[i].dateCreated = now]_vars

-----------------------------------------------------------------------------
(* Two tag requests of one user, on the user's two bookmarks, interleaved at  *)
(* their store operations.                                                    *)

\* What Tagging.addTags was called with for a bookmark before the requests:
\* never called, called with [], called with ["x"].
RaceSeeds == {<<>>, << <<>> >>, << <<TagX>> >>}

Seeded(coll, item, seed) ==
    IF seed = <<>> THEN coll ELSE addTags(coll, item, seed[1], 0).docs

\* The request before the two, when the deletion it started is still pending
\* as they arrive: a deleteTagsFromWebapp that emptied the tag set of bookmark
\* 15 (which may have been tagged again since).
EarlierDeletion == [route |-> "deleteTagsFromWebapp", _id |-> toHexString(15)]

\* The stores after the user has added bookmarks 15 and 17 and the tag routes
\* have run one at a time, leaving the bookmarks with the seeded tags,
\* adjacent when these share a tag.
InitTagRace ==
    /\ sessions = [s \in Sessions |-> start(EmptySession, 7).session]
    /\ sessLog = [s \in Sessions |-> <<>>]
    /\ users = <<>>
    /\ webapps = createWebapp(createWebapp(<<>>, 7, "name", "description", "url", 15, 0),
                              7, "name", "description", "url", 17, 0)
    /\ \E a, b \in RaceSeeds :
          /\ tagDocs = Seeded(Seeded(<<>>, 15, a), 17, b)
          /\ \/ floating = EmptyBag /\ lastRequest = [route |-> "none"]
             \/ /\ a # <<>>
                /\ floating = SetToBag({Spawned(ObjectId(EarlierDeletion._id))})
                /\ lastRequest = EarlierDeletion
          /\ graphDocs =
                LET nodes == addNode(addNode(<<>>, 15, 7, 16, 0), 17, 7, 18, 0) IN
                IF Range(TagsOf(tagDocs, 15)) \cap Range(TagsOf(tagDocs, 17)) # {}
                THEN addEdge(addEdge(nodes, 15, 17), 17, 15)
                ELSE nodes
    /\ nextId = 19 /\ now = 0
    /\ authLog = <<>>
    /\ procs = [r \in Requests |-> TagRaceIdle]
    /\ tagLog = <<>>
    /\ nPosts = 0 /\ errorHandlers = <<>>
    /\ CtorInit /\ GraphInit

NextTagRace ==
    \/ \E r \in Requests, route \in TagRaceRoutes, tags \in TagRaceStrings :
          TagRaceCall(r, route, tags)
    \/ \E r \in Requests : TagRaceOwner(r)
    \/ \E r \in Requests : TagRaceEnsure(r)
    \/ \E r \in Requests : TagRaceCreate(r)
    \/ \E r \in Requests : TagRaceAdd(r)
    \/ \E r \in Requests : TagRaceCheck(r)
    \/ \E r \in Requests : TagRacePull(r)
    \/ \E r \in Requests : TagRaceEmpty(r)
    \/ \E r \in Requests : TagRaceByUser(r)
    \/ \E r \in Requests : TagRaceOwn(r)
    \/ \E r \in Requests : TagRaceMany(r)
    \/ \E r \in Requests : TagRaceNodes(r)
    \/ \E r \in Requests : TagRaceEdge(r)
    \/ \E r \in Requests : TagRaceReturn(r)
    \/ \E e \in BagToSet(floating) : FloatEnsure(e)
    \/ \E e \in BagToSet(floating) : FloatCreate(e)
    \/ \E e \in BagToSet(floating) : FloatDelete(e)

SpecTagRace == InitTagRace /\ [][NextTagRace]_vars

\* Both requests have completed.
BothCompleted == \A r \in Requests : procs[r].pc = "done"

\* C31: when two tag-mutation requests of the same user, on two different
\* bookmarks, interleave at their store operations, then once both have
\* completed the two bookmarks are mutually adjacent if and only if their tag
\* sets share at least one tag.  Stated for the requests that arrive while no
\* deletion started by an earlier request is pending.
InterleavedTagRoutesKeepAdjacency ==
    (BothCompleted /\ lastRequest.route = "none") =>
        (Adjacent(15, 17) <=> SharesTag(15, 17))

-----------------------------------------------------------------------------
(* Graphing: addNode, addEdge, updateEdgesForUserNode and deleteNode called   *)
(* one at a time in any order.                                                *)

NextGraphNodes ==
    \/ \E o \in GraphOwners : GraphAddNode(o)
    \/ \E a \in GraphItems, b \in GraphItems : GraphAddEdge(a, b)
    \/ \E u \in GraphOwners, a \in GraphItems, c \in ConnectedLists : GraphUpdateEdges(u, a, c)
    \/ \E a \in GraphItems : GraphDeleteNode(a)

SpecGraphNodes == InitGraph /\ [][NextGraphNodes]_vars

\* C32: after deleteNode(item) no remaining Graph Node lists item among its
\* neighbours, and after any sequence of addNode, addEdge,
\* updateEdgesForUserNode and deleteNode calls every neighbour listed by a
\* node is an item that has a Graph Node.
NoDanglingNeighbours ==
    /\ graphLast.op = "deleteNode" =>
          \A i \in 1..Len(graphDocs) : ~Includes(graphDocs[i].neighbors, graphLast.item)
    /\ \A i \in 1..Len(graphDocs) :
          \A b \in Range(graphDocs[i].neighbors) : HasNode(graphDocs, b)

-----------------------------------------------------------------------------
(* The createUser, logIn, logOut and deleteUser routes called with two       *)
(* sessions, both logged out at first and no user registered; every route    *)
(* runs to completion.                                                       *)

InitUserSessions ==
    /\ SessInit /\ StoreInit /\ AuthInit /\ CtorInit /\ GraphInit /\ TagInit /\ RouteInit

NextUserSessions ==
    \/ \E s \in Sessions, u \in AccountNames, p \in AccountPasswords : AccessCreateUser(s, u, p)
    \/ \E s \in Sessions, u \in AccountNames, p \in AccountPasswords : AccessLogIn(s, u, p)
    \/ \E s \in Sessions : AccessLogOut(s)
    \/ \E s \in Sessions : AccessDeleteUser(s)

SpecUserSessions == InitUserSessions /\ [][NextUserSessions]_vars

\* C33: in every state reachable through the createUser, logIn, logOut and
\* deleteUser routes acting on several sessions, the user id stored in each
\* logged-in session is the _id of a stored user.
SessionUsersExist ==
    \A s \in Sessions :
        HasUser(sessions[s]) => Holds(users, "_id", ObjectId(sessions[s].user))

=============================================================================
